---- MODULE Spec2Model ----
(***************************************************************************)
(* State-machine model of scvelo/tools/dynamical_model.py:                 *)
(*   - the task engines (SequentialEngine, MultiprocessingEngine), the     *)
(*     pool worker work_recover_dynamics_fit_queue and the aggregator      *)
(*     RecoverDynamicsFitResult (specification Spec / FairSpec);           *)
(*   - the per-gene model DynamicsRecovery with initialize() and update()  *)
(*     (specification ModelSpec).                                          *)
(***************************************************************************)
EXTENDS Integers, Sequences, FiniteSets, TLC

VARIABLES
    \* ---- recover_dynamics / engine inputs
    request,              \* the var_names argument of recover_dynamics, until parsed
    var_names,            \* the task list (genes to fit), as parse_var_names returns it
    fate,                 \* what fitting each gene does: "fit", "unrecoverable", "raise"
    engine,               \* "Sequential" or "Multiprocessing"
    n_procs, batch_size,
    \* ---- MultiprocessingEngine.run
    shared_task_counter,  \* multiprocessing.Value: next unclaimed task index
    lock,                 \* holder of shared_task_counter.get_lock(), 0 when free
    queue,                \* multiprocessing.Queue: FIFO of result batches
    wpc,                  \* position of each worker process
    genes,                \* per worker: claimed genes not yet worked on
    rets,                 \* per worker: outputs of the current batch
    dpc,                  \* position of the driver (the process calling run)
    n_started, n_joined,  \* processes started / joined so far
    n_done,               \* driver's running total of collected results
    drets,                \* driver: rest of the batch read from the queue
    seq_i,                \* SequentialEngine: index of the current task
    seq_ret,              \* SequentialEngine: output of work() awaiting collect
    result,               \* the RecoverDynamicsFitResult object
    adata,                \* what recover_dynamics wrote to the data container
    aligned,              \* the model align_dynamics was handed, <<>> before the call
    \* ---- logs (history of calls, not program state)
    claim_log,            \* the index batches claimed, in claim order
    put_log,              \* the messages pushed onto the channel, in push order
    collect_log,          \* the genes passed to result.collect, in call order
    \* ---- DynamicsRecovery (one gene's model)
    dm,                   \* the model object's fields
    mpc,                  \* position inside DynamicsRecovery.__init__/initialize
    last,                 \* the last update() call: arguments seen, value returned
    fit_log               \* the calls fit() and its searches made themselves, in call order
                          \* (history, not program state)

engine_vars == <<request, var_names, fate, engine, n_procs, batch_size, shared_task_counter,
                 lock, queue, wpc, genes, rets, dpc, n_started, n_joined, n_done,
                 drets, seq_i, seq_ret, result, adata, aligned, claim_log, put_log,
                 collect_log>>
model_vars  == <<dm, mpc, last, fit_log>>
vars        == <<engine_vars, model_vars>>

\* ------------------------------------------------------------------ bounds
MaxGenes == 3       \* adata.n_vars; the task list holds at most this many genes
MaxProcs == 2       \* worker processes
MaxBatch == 2       \* batch_size

Genes   == 1..MaxGenes
Workers == 1..MaxProcs
NaN     == 0 - 1    \* np.nan: the missing value of every output table (all values are >= 0)

\* ------------------------------------------------------------------ helpers
Min(a, b) == IF a < b THEN a ELSE b
Max(a, b) == IF a > b THEN a ELSE b
Range(s)  == {s[i] : i \in DOMAIN s}

RECURSIVE SeqMax(_)
SeqMax(s) == IF s = <<>> THEN 0 ELSE Max(Head(s), SeqMax(Tail(s)))

\* Python's seq[lo:hi] on a sequence of length n, as 0-based index sequence:
\* negative bounds count from the end, both are clamped to [0, n].
PyClamp(i, n) == IF i < 0 THEN Max(i + n, 0) ELSE Min(i, n)
PySliceIx(n, lo, hi) ==
    LET l == PyClamp(lo, n)
        h == PyClamp(hi, n)
    IN  [k \in 1..Max(h - l, 0) |-> l + k - 1]
PySlice(s, lo, hi) ==
    LET ix == PySliceIx(Len(s), lo, hi) IN [k \in DOMAIN ix |-> s[ix[k] + 1]]

\* ------------------------------------------------------------------ work
Fates == {"fit", "unrecoverable", "raise"}

\* The DynamicsRecovery object work_recover_dynamics_fit_single returns for gene g
\* when nothing raises: a fixed function of the gene (the fit is deterministic in
\* the gene's data). A recoverable gene has been initialized and fitted; loss
\* traces of different genes have different lengths.
FitLoss(g) == [k \in 1..(1 + (g % 3)) |-> 100 * g - k]
FitPars(g) == [k \in 1..(1 + (g % 3)) |->
                 <<10 + g + k, (g + 1) * (g + 2), 20 + g, 30 + g + k, g + 1>>]
FittedModel(g, f) ==
    [gene |-> g, recoverable |-> (f = "fit"),
     t |-> 1000 + g, tau |-> 2000 + g, tau_ |-> 3000 + g,
     pars |-> FitPars(g), loss |-> FitLoss(g),
     u0 |-> 40 + g, s0 |-> 50 + g, pval_steady |-> 60 + g,
     steady_u |-> 70 + g, steady_s |-> 80 + g,
     std_u |-> 90 + g, std_s |-> 110 + g,
     likelihood |-> 120 + g, varx |-> 130 + g]

\* work_recover_dynamics_fit_single: TRUE when the call raises. Nothing in the
\* function catches an exception of DynamicsRecovery(...) or dm.fit(...).
WorkRaises(g, f) == f = "raise"
\* work_recover_dynamics_fit_single: the (gene, dm) pair it returns.
work_recover_dynamics_fit_single(g, f) == <<g, FittedModel(g, f)>>

\* ------------------------------------------------------------------ Result
NanArray == [g \in Genes |-> NaN]

\* RecoverDynamicsFitResult.__init__ on a container without earlier fits:
\* read_pars gives all-NaN arrays, the matrices are all-NaN.
NewResult ==
    [alpha |-> NanArray, beta |-> NanArray, gamma |-> NanArray, t_ |-> NanArray,
     scaling |-> NanArray, std_u |-> NanArray, std_s |-> NanArray,
     likelihood |-> NanArray, u0 |-> NanArray, s0 |-> NanArray, pval |-> NanArray,
     steady_u |-> NanArray, steady_s |-> NanArray, varx |-> NanArray,
     idx |-> <<>>, L |-> <<>>, P |-> <<>>,
     T |-> NanArray, Tau |-> NanArray, Tau_ |-> NanArray,
     dm |-> <<>>]           \* None; <<m>> once a model is remembered

\* RecoverDynamicsFitResult.__init__ on container a: read_pars takes the
\* columns a holds (all of them are written together, line 930), the time
\* matrices are the layers a holds.
ResultFor(a) ==
    LET col(i) == IF "fit_alpha" \in a.keys THEN a.var[i] ELSE NanArray
    IN  [alpha |-> col(1), beta |-> col(2), gamma |-> col(3), t_ |-> col(4),
         scaling |-> col(5), std_u |-> col(6), std_s |-> col(7),
         likelihood |-> col(8), u0 |-> col(9), s0 |-> col(10), pval |-> col(11),
         steady_u |-> col(12), steady_s |-> col(13), varx |-> col(14),
         idx |-> <<>>, L |-> <<>>, P |-> <<>>,
         T |-> IF "fit_t" \in a.keys THEN a.fit_t ELSE NanArray,
         Tau |-> IF "fit_tau" \in a.keys THEN a.fit_tau ELSE NanArray,
         Tau_ |-> IF "fit_tau_" \in a.keys THEN a.fit_tau_ ELSE NanArray,
         dm |-> <<>>]

\* adata.var_names.get_loc(gene): genes are named by their column index.
get_loc(gene) == gene

\* Mutant of CollectRecoverable: rows are written in arrival order, at the
\* position of the result in idx, not at the gene's own index.
CollectByArrival(r, m) ==
    LET ix   == Len(r.idx) + 1
        last_col == m.pars[Len(m.pars)]
    IN  [r EXCEPT
           !.idx = Append(@, ix),
           !.T[ix] = m.t, !.Tau[ix] = m.tau, !.Tau_[ix] = m.tau_,
           !.alpha[ix] = last_col[1],
           !.beta[ix] = last_col[2] \div last_col[5],
           !.gamma[ix] = last_col[3],
           !.t_[ix] = last_col[4],
           !.scaling[ix] = last_col[5],
           !.u0[ix] = m.u0, !.s0[ix] = m.s0, !.pval[ix] = m.pval_steady,
           !.steady_u[ix] = m.steady_u * last_col[5],
           !.steady_s[ix] = m.steady_s,
           !.std_u[ix] = m.std_u, !.std_s[ix] = m.std_s,
           !.likelihood[ix] = m.likelihood, !.varx[ix] = m.varx,
           !.L = Append(@, m.loss)]

\* The branch of collect that writes a recoverable model into the tables.
CollectRecoverable(r, m) ==
    LET ix   == get_loc(m.gene)
        last_col == m.pars[Len(m.pars)]
    IN  [r EXCEPT
           !.idx = Append(@, ix),
           !.T[ix] = m.t, !.Tau[ix] = m.tau, !.Tau_[ix] = m.tau_,
           !.alpha[ix] = last_col[1],
           !.beta[ix] = last_col[2] \div last_col[5],
           !.gamma[ix] = last_col[3],
           !.t_[ix] = last_col[4],
           !.scaling[ix] = last_col[5],
           !.u0[ix] = m.u0, !.s0[ix] = m.s0, !.pval[ix] = m.pval_steady,
           !.steady_u[ix] = m.steady_u * last_col[5],
           !.steady_s[ix] = m.steady_s,
           !.std_u[ix] = m.std_u, !.std_s[ix] = m.std_s,
           !.likelihood[ix] = m.likelihood, !.varx[ix] = m.varx,
           !.L = Append(@, m.loss)]

\* Mutant of collect: the model of the result collected last is remembered,
\* whichever gene it belongs to.
CollectRememberLast(r, ret, names) ==
    LET m  == ret[2]
        r1 == IF m.recoverable THEN CollectRecoverable(r, m) ELSE r
    IN  [r1 EXCEPT !.dm = <<m>>]

\* Mutant of collect: the recoverable flag is not looked at.
CollectUnchecked(r, ret, names) ==
    LET gene == ret[1]
        m    == ret[2]
        r1   == CollectRecoverable(r, m)
    IN  IF gene = names[Len(names)] THEN [r1 EXCEPT !.dm = <<m>>] ELSE r1

\* RecoverDynamicsFitResult.collect(ret), names = self.var_names.
collect(r, ret, names) ==
    LET gene == ret[1]
        m    == ret[2]
        r1   == IF m.recoverable THEN CollectRecoverable(r, m) ELSE r
    IN  IF gene = names[Len(names)] THEN [r1 EXCEPT !.dm = <<m>>] ELSE r1

\* ------------------------------------------------------------------ recover_dynamics
\* Mutant of LossMatrix: the matrix is only as wide as the longest new trace.
LossMatrixNoHistory(has_loss, prior, idx, L) ==
    LET cur_len == IF has_loss THEN Len(prior[1]) ELSE 2
        max_len == SeqMax([k \in DOMAIN L |-> Len(L[k])])
        base(g) == [j \in 1..max_len |->
                      IF has_loss /\ j <= cur_len THEN prior[g][j] ELSE NaN]
        pad(l)  == [j \in 1..max_len |-> IF j <= Len(l) THEN l[j] ELSE NaN]
        pos(g)  == {k \in DOMAIN idx : idx[k] = g}
    IN  [g \in Genes |->
           IF pos(g) = {} THEN base(g)
           ELSE pad(L[CHOOSE k \in pos(g) : \A j \in pos(g) : j <= k])]

\* The loss matrix recover_dynamics stores in adata.varm["loss"]; has_loss says
\* whether "loss" is in adata.varm.keys(), prior is the matrix stored there.
LossMatrix(has_loss, prior, idx, L) ==
    LET cur_len == IF has_loss THEN Len(prior[1]) ELSE 2
        max_len == Max(SeqMax([k \in DOMAIN L |-> Len(L[k])]), cur_len)
        base(g) == [j \in 1..max_len |->
                      IF has_loss /\ j <= cur_len THEN prior[g][j] ELSE NaN]
        pad(l)  == [j \in 1..max_len |-> IF j <= Len(l) THEN l[j] ELSE NaN]
        pos(g)  == {k \in DOMAIN idx : idx[k] = g}
    IN  [g \in Genes |->
           IF pos(g) = {} THEN base(g)
           ELSE pad(L[CHOOSE k \in pos(g) : \A j \in pos(g) : j <= k])]

\* A data container without earlier fits: keys holds the keys present in
\* adata.var / adata.layers / adata.varm.
NewAdata == [keys |-> {}, var |-> <<>>, fit_t |-> NanArray, fit_tau |-> NanArray,
             fit_tau_ |-> NanArray, loss |-> [g \in Genes |-> <<>>]]

\* recover_dynamics after engine.run(): flatten the result, write_pars, the time
\* layers (conn is None) and, if any gene was recovered, the loss matrix.
WriteResults(a, r) ==
    [keys |-> a.keys \cup {"fit_alpha", "fit_t", "fit_tau", "fit_tau_"}
                     \cup (IF r.L # <<>> THEN {"loss"} ELSE {}),
     var |-> <<r.alpha, r.beta, r.gamma, r.t_, r.scaling, r.std_u, r.std_s,
               r.likelihood, r.u0, r.s0, r.pval, r.steady_u, r.steady_s, r.varx>>,
     fit_t |-> IF "fit_t" \in a.keys
               THEN [g \in Genes |-> IF g \in Range(r.idx) THEN r.T[g] ELSE a.fit_t[g]]
               ELSE r.T,
     fit_tau |-> r.Tau, fit_tau_ |-> r.Tau_,
     loss |-> IF r.L # <<>> THEN LossMatrix("loss" \in a.keys, a.loss, r.idx, r.L)
              ELSE a.loss]

\* Mutant of make_unique_list: repeated entries are kept.
make_unique_list_keeps(s) == s
\* utils.make_unique_list: the list without repeated entries, first occurrences
\* in their order.
make_unique_list(s) ==
    LET keep == {i \in DOMAIN s : \A j \in 1..(i - 1) : s[j] # s[i]}
        RECURSIVE pick(_)
        pick(i) == IF i > Len(s) THEN <<>>
                   ELSE IF i \in keep THEN <<s[i]>> \o pick(i + 1) ELSE pick(i + 1)
    IN  pick(1)

\* adata.var_names[mask]: the genes of a selection, in the container's order.
Masked(sel) ==
    LET RECURSIVE pick(_)
        pick(g) == IF g > MaxGenes THEN <<>>
                   ELSE IF g \in sel THEN <<g>> \o pick(g + 1) ELSE pick(g + 1)
    IN  pick(1)

\* var_names[np.argsort(np.sum(X, 0))[::-1][:n]]: the n genes of the list with
\* the largest total expression; the total expression of gene g is g.
RECURSIVE TopGenes(_, _)
TopGenes(names, n) ==
    IF n = 0 \/ names = <<>> THEN <<>>
    ELSE LET top == CHOOSE i \in DOMAIN names : \A j \in DOMAIN names : names[j] <= names[i]
         IN  <<names[top]>> \o TopGenes([k \in 1..(Len(names) - 1) |->
                                           IF k < top THEN names[k] ELSE names[k + 1]], n - 1)

\* Mutant of parse_var_names: an empty gene set is passed on, not rejected.
parse_var_names_unchecked(req) ==
    LET named == IF req.kind \in {"list", "gene"} THEN req.names
                 ELSE IF req.kind = "var_key" THEN Masked(req.sel)
                 ELSE IF req.use_raw \/ req.kind = "all" THEN Masked(Genes)
                 ELSE Masked(req.sel)
        known == SelectSeq(make_unique_list(named), LAMBDA name : name \in Genes)
    IN  [raised |-> FALSE, names |-> known, fit_r2 |-> FALSE]

\* parse_var_names. req.kind tells what was passed: "list" (an array of names,
\* req.names), or a string: "gene" (a name of adata.var_names, req.names holds
\* it), "var_key" (a key of adata.var, req.sel the genes its column selects),
\* "all", "genes_key" (a string containing "_genes", req.sel the velocity
\* genes) or "unknown" (any other string). Names are gene indices, 0 is a name
\* that is not in adata.var_names; req.n_top = 0 stands for n_top_genes = None.
parse_var_names(req) ==
    LET is_str   == req.kind # "list"
        unres    == req.kind \in {"var_key", "all", "genes_key", "unknown"}
        raise360 == unres /\ req.kind = "unknown" /\ ~req.use_raw
        named    == IF req.kind \in {"list", "gene"} THEN req.names
                    ELSE IF req.kind = "var_key" THEN Masked(req.sel)
                    ELSE IF req.use_raw \/ req.kind = "all" THEN Masked(Genes)
                    ELSE Masked(req.sel)
        uniq     == make_unique_list(named)
        known    == SelectSeq(uniq, LAMBDA name : name \in Genes)
        raise367 == Len(known) = 0
        cut      == IF req.n_top # 0 /\ Len(known) > req.n_top
                    THEN TopGenes(known, req.n_top) ELSE known
    IN  [raised |-> raise360 \/ raise367,
         names  |-> IF raise360 \/ raise367 THEN <<>> ELSE cut,
         fit_r2 |-> is_str /\ req.kind = "genes_key" /\ ~req.use_raw]

\* ------------------------------------------------------------------ pool worker
\* Mutant of ClaimIx: the batch reaches one index too far.
ClaimIxOverlap(n, task_ix, b) == PySliceIx(n, task_ix, task_ix + b + 1)
\* work_recover_dynamics_fit_queue, line 453: the task indices of the batch
\* var_names[task_ix : task_ix + batch_size], n = len(var_names).
ClaimIx(n, task_ix, b) == PySliceIx(n, task_ix, task_ix + b)
\* Mutant of NextCounter: the counter advances one further than the batch size.
NextCounterFurther(c, b) == c + b + 1
\* line 455: shared_task_counter.value += batch_size
NextCounter(c, b) == c + b
\* Mutant of WorkLeft: the workers stop one task early.
WorkLeftEarly(task_ix, n_req) == task_ix < n_req - 1
\* line 451: is there work left for a worker that read task_ix?
WorkLeft(task_ix, n_req) == task_ix < n_req

\* Mutant of LockOnExit: the lock is kept past the end of the with-block.
LockKept(w) == w
\* lines 448-458: leaving the with-block, by falling out of it or by `return`,
\* releases the lock that worker w holds.
LockOnExit(w) == 0

\* The claims followed per run. With batch_size >= 1 a run makes at most
\* len(var_names) claims, so this cuts nothing off; with batch_size <= 0 the
\* claims go on without end and the model follows them this far.
MaxClaims == MaxGenes + 1

\* `with shared_task_counter.get_lock():` entered (blocks while another holds it).
Acquire(w) ==
    /\ wpc[w] = "lock" /\ lock = 0
    /\ lock' = w
    /\ wpc' = [wpc EXCEPT ![w] = "claim"]
    /\ UNCHANGED <<request, var_names, fate, engine, n_procs, batch_size, shared_task_counter,
                   queue, genes, rets, dpc, n_started, n_joined, n_done, drets,
                   seq_i, seq_ret, result, adata, claim_log, put_log, collect_log, aligned, model_vars>>

\* The body of the with-block: read the counter, claim a batch and advance the
\* counter, or return; the lock is released on leaving the block either way.
Claim(w) ==
    /\ wpc[w] = "claim" /\ lock = w
    /\ WorkLeft(shared_task_counter, Len(var_names)) => Len(claim_log) < MaxClaims
    /\ LET task_ix == shared_task_counter
           n_req   == Len(var_names)
           ix      == ClaimIx(n_req, task_ix, batch_size)
       IN  IF WorkLeft(task_ix, n_req)
           THEN /\ genes' = [genes EXCEPT ![w] = [k \in DOMAIN ix |-> var_names[ix[k] + 1]]]
                /\ shared_task_counter' = NextCounter(shared_task_counter, batch_size)
                /\ rets' = [rets EXCEPT ![w] = <<>>]
                /\ claim_log' = Append(claim_log, ix)
                /\ wpc' = [wpc EXCEPT ![w] = "work"]
           ELSE /\ wpc' = [wpc EXCEPT ![w] = "exited"]
                /\ UNCHANGED <<genes, shared_task_counter, rets, claim_log>>
    /\ lock' = LockOnExit(w)
    /\ UNCHANGED <<request, var_names, fate, engine, n_procs, batch_size, queue, dpc, n_started,
                   n_joined, n_done, drets, seq_i, seq_ret, result, adata,
                   put_log, collect_log, aligned, model_vars>>

\* One pass of `for gene in genes:`: fit the gene and append to rets. An exception
\* of the fit is not caught here either: it ends the worker process.
Work(w) ==
    /\ wpc[w] = "work" /\ genes[w] # <<>>
    /\ LET gene == Head(genes[w])
       IN  IF WorkRaises(gene, fate[gene])
           THEN /\ wpc' = [wpc EXCEPT ![w] = "crashed"]
                /\ UNCHANGED <<genes, rets>>
           ELSE /\ rets' = [rets EXCEPT ![w] =
                              Append(@, work_recover_dynamics_fit_single(gene, fate[gene]))]
                /\ genes' = [genes EXCEPT ![w] = Tail(@)]
                /\ UNCHANGED wpc
    /\ UNCHANGED <<request, var_names, fate, engine, n_procs, batch_size, shared_task_counter,
                   lock, queue, dpc, n_started, n_joined, n_done, drets, seq_i,
                   seq_ret, result, adata, claim_log, put_log, collect_log, aligned, model_vars>>

\* Mutant of PutMessage: every result of the batch is pushed as a message of its own.
PutPerResult(q, r) == q \o [k \in DOMAIN r |-> <<r[k]>>]
\* line 467: queue.put(rets) appends the whole list as one message.
PutMessage(q, r) == Append(q, r)

\* queue.put(rets) after the for loop, then back to the top of `while True`.
Put(w) ==
    /\ wpc[w] = "work" /\ genes[w] = <<>>
    /\ queue' = PutMessage(queue, rets[w])
    /\ put_log' = PutMessage(put_log, rets[w])
    /\ wpc' = [wpc EXCEPT ![w] = "lock"]
    /\ UNCHANGED <<request, var_names, fate, engine, n_procs, batch_size, shared_task_counter,
                   lock, genes, rets, dpc, n_started, n_joined, n_done, drets, seq_i,
                   seq_ret, result, adata, claim_log, collect_log, aligned, model_vars>>

\* ------------------------------------------------------------------ MultiprocessingEngine.run
\* `for p in processes: p.start()`, one process per step.
StartProcess ==
    /\ dpc = "start" /\ n_started < n_procs
    /\ n_started' = n_started + 1
    /\ wpc' = [wpc EXCEPT ![n_started + 1] = "lock"]
    /\ UNCHANGED <<request, var_names, fate, engine, n_procs, batch_size, shared_task_counter,
                   lock, queue, genes, rets, dpc, n_joined, n_done, drets, seq_i,
                   seq_ret, result, adata, claim_log, put_log, collect_log, aligned, model_vars>>

AllStarted ==
    /\ dpc = "start" /\ n_started = n_procs
    /\ dpc' = "loop"
    /\ UNCHANGED <<request, var_names, fate, engine, n_procs, batch_size, shared_task_counter,
                   lock, queue, wpc, genes, rets, n_started, n_joined, n_done, drets,
                   seq_i, seq_ret, result, adata, claim_log, put_log, collect_log, aligned, model_vars>>

\* Mutant of LoopCondition: the driver leaves the loop one result early.
LoopConditionEarly(done, n_req) == done + 1 < n_req
\* line 689: the test of `while n_done < n_req`.
LoopCondition(done, n_req) == done < n_req

\* `rets = queue.get(block=True)` inside the loop: blocks while the queue is empty.
Get ==
    /\ dpc = "loop" /\ LoopCondition(n_done, Len(var_names))
    /\ queue # <<>>
    /\ drets' = Head(queue)
    /\ queue' = Tail(queue)
    /\ dpc' = IF Head(queue) = <<>> THEN "loop" ELSE "collect"
    /\ UNCHANGED <<request, var_names, fate, engine, n_procs, batch_size, shared_task_counter,
                   lock, wpc, genes, rets, n_started, n_joined, n_done, seq_i,
                   seq_ret, result, adata, claim_log, put_log, collect_log, aligned, model_vars>>

\* One pass of `for ret in rets:`: collect the result and count it.
Collect ==
    /\ dpc = "collect" /\ drets # <<>>
    /\ result' = collect(result, Head(drets), var_names)
    /\ n_done' = n_done + 1
    /\ collect_log' = Append(collect_log, Head(drets)[1])
    /\ drets' = Tail(drets)
    /\ dpc' = IF Tail(drets) = <<>> THEN "loop" ELSE "collect"
    /\ UNCHANGED <<request, var_names, fate, engine, n_procs, batch_size, shared_task_counter,
                   lock, queue, wpc, genes, rets, n_started, n_joined, seq_i,
                   seq_ret, adata, claim_log, put_log, aligned, model_vars>>

\* The loop is left once its condition is false.
ExitLoop ==
    /\ dpc = "loop" /\ ~LoopCondition(n_done, Len(var_names))
    /\ dpc' = "join"
    /\ UNCHANGED <<request, var_names, fate, engine, n_procs, batch_size, shared_task_counter,
                   lock, queue, wpc, genes, rets, n_started, n_joined, n_done, drets,
                   seq_i, seq_ret, result, adata, claim_log, put_log, collect_log, aligned, model_vars>>

\* `for p in processes: p.join()`: returns once that process has ended.
Join ==
    /\ dpc = "join" /\ n_joined < n_procs
    /\ wpc[n_joined + 1] \in {"exited", "crashed"}
    /\ n_joined' = n_joined + 1
    /\ UNCHANGED <<request, var_names, fate, engine, n_procs, batch_size, shared_task_counter,
                   lock, queue, wpc, genes, rets, dpc, n_started, n_done, drets,
                   seq_i, seq_ret, result, adata, claim_log, put_log, collect_log, aligned, model_vars>>

\* run() returns after the last join.
RunReturns ==
    /\ dpc = "join" /\ n_joined = n_procs
    /\ dpc' = "finished"
    /\ UNCHANGED <<request, var_names, fate, engine, n_procs, batch_size, shared_task_counter,
                   lock, queue, wpc, genes, rets, n_started, n_joined, n_done, drets,
                   seq_i, seq_ret, result, adata, claim_log, put_log, collect_log, aligned, model_vars>>

\* ------------------------------------------------------------------ SequentialEngine.run
\* Mutant of SeqTask: the task list is walked from its end.
SeqTaskReversed(tasks, i) == tasks[Len(tasks) + 1 - i]
\* line 617: `for task in self.tasks`, the task of the i-th pass.
SeqTask(tasks, i) == tasks[i]

\* `ret = self.work(task, self.work_kwargs)` for the next task; an exception
\* leaves run() and recover_dynamics.
SeqWork ==
    /\ dpc = "seq_work" /\ seq_i <= Len(var_names)
    /\ LET task == SeqTask(var_names, seq_i)
       IN  IF WorkRaises(task, fate[task])
           THEN dpc' = "raised" /\ UNCHANGED seq_ret
           ELSE /\ seq_ret' = <<work_recover_dynamics_fit_single(task, fate[task])>>
                /\ dpc' = "seq_collect"
    /\ UNCHANGED <<request, var_names, fate, engine, n_procs, batch_size, shared_task_counter,
                   lock, queue, wpc, genes, rets, n_started, n_joined, n_done, drets,
                   seq_i, result, adata, claim_log, put_log, collect_log, aligned, model_vars>>

\* `self.result.collect(ret)`, then on to the next task.
SeqCollect ==
    /\ dpc = "seq_collect"
    /\ result' = collect(result, seq_ret[1], var_names)
    /\ collect_log' = Append(collect_log, seq_ret[1][1])
    /\ seq_ret' = <<>>
    /\ seq_i' = seq_i + 1
    /\ dpc' = "seq_work"
    /\ UNCHANGED <<request, var_names, fate, engine, n_procs, batch_size, shared_task_counter,
                   lock, queue, wpc, genes, rets, n_started, n_joined, n_done, drets,
                   adata, claim_log, put_log, aligned, model_vars>>

SeqReturns ==
    /\ dpc = "seq_work" /\ seq_i > Len(var_names)
    /\ dpc' = "finished"
    /\ UNCHANGED <<request, var_names, fate, engine, n_procs, batch_size, shared_task_counter,
                   lock, queue, wpc, genes, rets, n_started, n_joined, n_done, drets,
                   seq_i, seq_ret, result, adata, claim_log, put_log, collect_log, aligned, model_vars>>

\* ------------------------------------------------------------------ recover_dynamics
\* The request once parse_var_names has replaced it (line 847 rebinds var_names).
NoRequest == [kind |-> "parsed", names |-> <<>>, sel |-> {}, use_raw |-> FALSE, n_top |-> 0]

\* Lines 840-844 and 358: what recover_dynamics writes to the container before
\* any gene is fitted; fit_r2 says whether the velocity genes were computed.
Entered(a, fit_r2) ==
    [a EXCEPT !.keys = @ \cup {"uns_recover_dynamics"}
                         \cup (IF fit_r2 THEN {"fit_r2"} ELSE {})]

\* Mutant of EngineFor: one process already selects the pooled engine.
EngineForOneProcess(n) == IF n >= 1 THEN "Multiprocessing" ELSE "Sequential"
\* Lines 875-886: the engine recover_dynamics constructs.
EngineFor(n) == IF n > 1 THEN "Multiprocessing" ELSE "Sequential"

\* recover_dynamics from its first line to the construction of the engine
\* (lines 828-886): the gene specification is parsed, which may raise; then the
\* Result object and the engine are constructed.
Enter ==
    /\ dpc = "enter"
    /\ LET p == parse_var_names(request)
       IN  /\ adata' = Entered(adata, p.fit_r2)
           /\ IF p.raised
              THEN /\ dpc' = "config_error"
                   /\ UNCHANGED <<var_names, engine, result>>
              ELSE /\ var_names' = p.names
                   /\ result' = ResultFor(Entered(adata, p.fit_r2))
                   /\ engine' = EngineFor(n_procs)
                   /\ dpc' = IF EngineFor(n_procs) = "Multiprocessing"
                             THEN "start" ELSE "seq_work"
    /\ request' = NoRequest
    /\ UNCHANGED <<fate, n_procs, batch_size, shared_task_counter, lock, queue, wpc,
                   genes, rets, n_started, n_joined, n_done, drets, seq_i, seq_ret,
                   claim_log, put_log, collect_log, aligned, model_vars>>

\* After engine.run(): the tables are written to the data container.
Write ==
    /\ dpc = "finished"
    /\ adata' = WriteResults(adata, result)
    /\ dpc' = "returned"
    /\ UNCHANGED <<request, var_names, fate, engine, n_procs, batch_size, shared_task_counter,
                   lock, queue, wpc, genes, rets, n_started, n_joined, n_done, drets,
                   seq_i, seq_ret, result, claim_log, put_log, collect_log, aligned, model_vars>>

\* align_dynamics, lines 1040-1058 with mode "align_total_time" and t_max None:
\* m is 1 outside idx and t_max / T_max for the columns of idx; the quotient is
\* a function of the gene's fitted times, different for different genes.
TMaxFactor(ix) == ix + 1
AlignFactors(idx) == [g \in Genes |-> IF g \in Range(idx) THEN TMaxFactor(g) ELSE 1]

\* align_dynamics, lines 1027-1082, on a container without an earlier
\* alignment: the rates of the columns of idx are divided by m, t_ and the time
\* layers are multiplied by it, and alignment_scaling is written (NaN where
\* it is 1).
AlignTables(a, idx) ==
    LET m       == AlignFactors(idx)
        down(c) == [g \in Genes |-> IF g \in Range(idx) THEN c[g] \div m[g] ELSE c[g]]
        up(c)   == [g \in Genes |-> IF g \in Range(idx) THEN c[g] * m[g] ELSE c[g]]
        mz      == [g \in Genes |-> IF m[g] = 1 THEN NaN ELSE m[g]]
    IN  [a EXCEPT
           !.keys = @ \cup {"fit_alignment_scaling"},
           !.var = [i \in 1..15 |->
                      IF i \in 1..3 THEN down(a.var[i])
                      ELSE IF i = 4 THEN up(a.var[i])
                      ELSE IF i = 15 THEN mz
                      ELSE a.var[i]],
           !.fit_t = up(@), !.fit_tau = up(@), !.fit_tau_ = up(@)]

\* The DynamicsRecovery object align_dynamics is handed: after fit() its
\* parameters are those of the last column of its trace.
ModelOf(d) ==
    LET cur == d.pars[Len(d.pars)]
    IN  [gene |-> d.gene, recoverable |-> d.recoverable, m |-> <<>>,
         alpha |-> cur[1], beta |-> cur[2], gamma |-> cur[3], t_ |-> cur[4],
         scaling |-> cur[5], t |-> d.t, tau |-> d.tau, pars |-> d.pars]

\* align_dynamics, lines 1084-1091: dm.m = m[idx], then alpha, beta, gamma and
\* pars[:3] are divided by dm.m[-1], and t, tau, t_ and pars[4] are multiplied
\* by it.
AlignModel(d, ms) ==
    LET f == ms[Len(ms)]
    IN  [d EXCEPT
           !.m = ms,
           !.alpha = @ \div f, !.beta = @ \div f, !.gamma = @ \div f,
           !.pars = [k \in DOMAIN @ |->
                       <<@[k][1] \div f, @[k][2] \div f, @[k][3] \div f,
                         @[k][4], @[k][5] * f>>],
           !.t = @ * f, !.tau = @ * f, !.t_ = @ * f]

\* m[idx]: the factors of the collected genes, in the order of idx.
FactorsOf(idx) == [k \in DOMAIN idx |-> AlignFactors(idx)[idx[k]]]

\* Lines 953-954 with t_max not False: align_dynamics(adata, t_max=t_max,
\* dm=dm, idx=idx) rescales the tables and the remembered model, with a numpy
\* that builds the arrays of lines 1086-1091 from pieces of different shapes.
Align ==
    /\ dpc = "returned"
    /\ adata' = AlignTables(adata, result.idx)
    /\ aligned' = IF result.dm = <<>> THEN <<>>
                  ELSE IF ~result.dm[1].recoverable THEN <<ModelOf(result.dm[1])>>
                  ELSE <<AlignModel(ModelOf(result.dm[1]), FactorsOf(result.idx))>>
    /\ dpc' = "aligned"
    /\ UNCHANGED <<request, var_names, fate, engine, n_procs, batch_size, shared_task_counter,
                   lock, queue, wpc, genes, rets, n_started, n_joined, n_done, drets,
                   seq_i, seq_ret, result, claim_log, put_log, collect_log, model_vars>>

\* The same call with a numpy that refuses to build an array from pieces of
\* different shapes (1.24 and later): line 1086 raises ValueError after the
\* tables were written and dm.m was assigned.
AlignRaises ==
    /\ dpc = "returned"
    /\ result.dm # <<>> /\ result.dm[1].recoverable
    /\ adata' = AlignTables(adata, result.idx)
    /\ aligned' = <<[ModelOf(result.dm[1]) EXCEPT !.m = FactorsOf(result.idx)]>>
    /\ dpc' = "align_raised"
    /\ UNCHANGED <<request, var_names, fate, engine, n_procs, batch_size, shared_task_counter,
                   lock, queue, wpc, genes, rets, n_started, n_joined, n_done, drets,
                   seq_i, seq_ret, result, claim_log, put_log, collect_log, model_vars>>

\* ------------------------------------------------------------------ specification
\* The task lists: duplicate-free lists of genes of the container
\* (parse_var_names), in an order that differs from that of adata.var_names:
\* the prefixes of <<2, 3, ..., n_vars, 1>>.
TaskOrder == [i \in 1..MaxGenes |-> (i % MaxGenes) + 1]
TaskLists == {SubSeq(TaskOrder, 1, n) : n \in 0..MaxGenes}

\* The var_names arguments recover_dynamics is called with: the task lists
\* (the empty one included), a list of one unknown name, a list with a
\* repeated and an unknown name, a list cut by n_top_genes = 1, and the
\* strings: a gene name, an unknown string, the key of an all-False column of
\* adata.var, and "velocity_genes" selecting one gene.
ListRequest(l, n) == [kind |-> "list", names |-> l, sel |-> {}, use_raw |-> FALSE, n_top |-> n]
StrRequest(k, l, sl) == [kind |-> k, names |-> l, sel |-> sl, use_raw |-> FALSE, n_top |-> 0]
Requests ==
    {ListRequest(l, 0) : l \in TaskLists}
    \cup {ListRequest(<<0>>, 0), ListRequest(<<TaskOrder[MaxGenes], 0, TaskOrder[MaxGenes]>>, 0),
          ListRequest(SubSeq(TaskOrder, 1, 2), 1),
          StrRequest("gene", <<TaskOrder[1]>>, {}), StrRequest("unknown", <<>>, {}),
          StrRequest("var_key", <<>>, {}), StrRequest("genes_key", <<>>, {TaskOrder[1]})}

ModelIdle == dm = <<>> /\ mpc = "idle" /\ last = <<>> /\ fit_log = <<>>

\* The state on entry of recover_dynamics, but for n_jobs and batch_size.
InitCall ==
    /\ request \in Requests
    /\ var_names = <<>> /\ engine = "None"
    \* at most one gene is unrecoverable and at most one gene's fit raises
    /\ fate \in [Genes -> Fates]
    /\ \A g \in Genes \ Range(parse_var_names(request).names) : fate[g] = "fit"
    /\ \A g, h \in Genes : fate[g] = fate[h] /\ fate[g] # "fit" => g = h
    /\ shared_task_counter = 0 /\ lock = 0 /\ queue = <<>>
    /\ wpc = [w \in Workers |-> "new"]
    /\ genes = [w \in Workers |-> <<>>]
    /\ rets = [w \in Workers |-> <<>>]
    /\ dpc = "enter"
    /\ n_started = 0 /\ n_joined = 0 /\ n_done = 0 /\ drets = <<>>
    /\ seq_i = 1 /\ seq_ret = <<>>
    /\ result = NewResult /\ adata = NewAdata
    /\ claim_log = <<>> /\ put_log = <<>> /\ collect_log = <<>>
    /\ aligned = <<>>
    /\ ModelIdle

Init ==
    /\ InitCall
    /\ \/ n_procs = 1 /\ batch_size = 1
       \/ n_procs \in 2..MaxProcs /\ batch_size \in 1..MaxBatch

WorkerNext(w) == Acquire(w) \/ Claim(w) \/ Work(w) \/ Put(w)
\* The steps of the process that called recover_dynamics, per engine.
PoolDriverNext == \/ Enter \/ StartProcess \/ AllStarted \/ Get \/ Collect \/ ExitLoop
                  \/ Join \/ RunReturns \/ Write \/ Align \/ AlignRaises
SeqDriverNext  == \/ Enter \/ SeqWork \/ SeqCollect \/ SeqReturns \/ Write
                  \/ Align \/ AlignRaises

Next == PoolDriverNext \/ SeqDriverNext \/ \E w \in Workers : WorkerNext(w)

Spec == Init /\ [][Next]_vars

\* The Result object on its own: collect called on the task outputs in any
\* order (the Engine contract: "an execution order cannot be guaranteed").
CollectInit ==
    /\ request = NoRequest
    /\ var_names \in TaskLists
    /\ fate \in [Genes -> Fates]
    /\ \A g \in Genes \ Range(var_names) : fate[g] = "fit"
    /\ engine = "None" /\ n_procs = 0 /\ batch_size = 0
    /\ shared_task_counter = 0 /\ lock = 0 /\ queue = <<>>
    /\ wpc = [w \in Workers |-> "new"]
    /\ genes = [w \in Workers |-> <<>>]
    /\ rets = [w \in Workers |-> <<>>]
    /\ dpc = "any_order"
    /\ n_started = 0 /\ n_joined = 0 /\ n_done = 0 /\ drets = <<>>
    /\ seq_i = 1 /\ seq_ret = <<>>
    /\ result = NewResult /\ adata = NewAdata
    /\ claim_log = <<>> /\ put_log = <<>> /\ collect_log = <<>>
    /\ aligned = <<>>
    /\ ModelIdle

CollectAny ==
    /\ dpc = "any_order"
    /\ \E g \in Range(var_names) \ Range(collect_log) :
          /\ ~WorkRaises(g, fate[g])
          /\ result' = collect(result, work_recover_dynamics_fit_single(g, fate[g]),
                               var_names)
          /\ collect_log' = Append(collect_log, g)
    /\ UNCHANGED <<request, var_names, fate, engine, n_procs, batch_size, shared_task_counter,
                   lock, queue, wpc, genes, rets, dpc, n_started, n_joined, n_done,
                   drets, seq_i, seq_ret, adata, claim_log, put_log, aligned, model_vars>>

CollectSpec == CollectInit /\ [][CollectAny]_vars

\* Repeated calls of recover_dynamics on one data container, each call as a
\* whole. The model a call fits for a gene depends on the call's settings
\* (max_iter, load_pars, ...): v selects one of three loss traces of lengths
\* 1, 1 + (g % 3) and 4.
Versions == 0..2
RefitModel(g, f, v) ==
    [FittedModel(g, f) EXCEPT
       !.loss = IF v = 0 THEN <<500 + g>>
                ELSE IF v = 1 THEN @
                ELSE <<700 + g, 600 + g, 500 + g, 400 + g>>]

\* The Result object of a call on container a after the outputs of the first
\* k tasks were collected (the tables do not depend on the engine).
RECURSIVE CallResult(_, _, _, _, _)
CallResult(a, names, f, v, k) ==
    IF k = 0 THEN ResultFor(a)
    ELSE collect(CallResult(a, names, f, v, k - 1),
                 <<names[k], RefitModel(names[k], f[names[k]], v)>>, names)

RefitInit ==
    /\ request = NoRequest
    /\ var_names = <<>> /\ fate = [g \in Genes |-> "fit"]
    /\ engine = "None" /\ n_procs = 1 /\ batch_size = 1
    /\ shared_task_counter = 0 /\ lock = 0 /\ queue = <<>>
    /\ wpc = [w \in Workers |-> "new"]
    /\ genes = [w \in Workers |-> <<>>]
    /\ rets = [w \in Workers |-> <<>>]
    /\ dpc = "calls"
    /\ n_started = 0 /\ n_joined = 0 /\ n_done = 0 /\ drets = <<>>
    /\ seq_i = 1 /\ seq_ret = <<>>
    /\ result = NewResult /\ adata = NewAdata
    /\ claim_log = <<>> /\ put_log = <<>> /\ collect_log = <<>>
    /\ aligned = <<>>
    /\ ModelIdle

\* One call of recover_dynamics on the container, from entry to the stored
\* tables (lines 828-951), for a list of genes none of whose fits raises and
\* at most one of which is not recoverable.
RecoverDynamicsCall ==
    /\ dpc = "calls"
    /\ \E names \in TaskLists \ {<<>>}, f \in [Genes -> {"fit", "unrecoverable"}],
          v \in Versions :
         /\ \A g \in Genes \ Range(names) : f[g] = "fit"
         /\ Cardinality({g \in Genes : f[g] = "unrecoverable"}) <= 1
         /\ LET a == Entered(adata, FALSE)
                r == CallResult(a, names, f, v, Len(names))
            IN  /\ var_names' = names /\ fate' = f
                /\ result' = r
                /\ adata' = WriteResults(a, r)
    /\ UNCHANGED <<request, engine, n_procs, batch_size, shared_task_counter, lock,
                   queue, wpc, genes, rets, dpc, n_started, n_joined, n_done, drets,
                   seq_i, seq_ret, claim_log, put_log, collect_log, aligned, model_vars>>

RefitSpec == RefitInit /\ [][RecoverDynamicsCall]_vars

\* Every process that can take a step eventually takes one (the operating system
\* schedules each process; a free lock is eventually granted).
\* The runs are those of the pooled engine in which every fit returns; whether
\* a returned model is recoverable plays no part in the scheduling.
PoolInit == Init /\ n_procs > 1
                 /\ \A g \in Genes : fate[g] = "fit"
PoolNext == PoolDriverNext \/ \E w \in Workers : WorkerNext(w)
\* The pooled engine with any batch_size the constructor takes (lines 646-657
\* check nothing), zero and negative ones included; every gene fits.
MinBatch == 0 - 1
AnyBatchInit == /\ InitCall
                /\ n_procs \in 2..MaxProcs /\ batch_size \in MinBatch..MaxBatch
                /\ \A g \in Genes : fate[g] = "fit"
AnyBatchSpec == AnyBatchInit /\ [][PoolNext]_vars

\* recover_dynamics with any n_procs, zero and negative ones included (line
\* 875 tests n_procs > 1 and nothing else), and, where the sequential engine
\* is constructed, any batch_size.
MinProcs == 0 - 1
ChoiceInit == /\ InitCall
              /\ n_procs \in MinProcs..MaxProcs
              /\ batch_size \in (IF n_procs > 1 THEN 1..MaxBatch ELSE MinBatch..MaxBatch)
ChoiceSpec == ChoiceInit /\ [][Next]_vars

FairSpec == /\ PoolInit /\ [][PoolNext]_vars
            /\ WF_vars(PoolDriverNext)
            /\ \A w \in Workers : WF_vars(WorkerNext(w))

\* ------------------------------------------------------------------ claims: engines
Pooled     == engine = "Multiprocessing"
N          == Len(var_names)
Started    == 1..n_procs
AllExited  == \A w \in Started : wpc[w] = "exited"
NoRaise    == \A g \in Range(var_names) : fate[g] # "raise"
Claimed    == UNION {Range(claim_log[i]) : i \in DOMAIN claim_log}
Injective(s) == \A i, j \in DOMAIN s : i # j => s[i] # s[j]

\* C1: in the pooled engine (batch_size >= 1, n_procs >= 1) the claimed batches
\* are pairwise disjoint, hold only indices of [0, N), and once every worker has
\* exited their union is [0, N): every task index is claimed exactly once.
C1_ClaimsPartition ==
    Pooled =>
      /\ \A i \in DOMAIN claim_log :
            /\ Injective(claim_log[i])
            /\ Range(claim_log[i]) \subseteq 0..(N - 1)
      /\ \A i, j \in DOMAIN claim_log :
            i # j => Range(claim_log[i]) \cap Range(claim_log[j]) = {}
      /\ AllExited => Claimed = 0..(N - 1)

C1_Witness ==
    /\ Pooled /\ N = 3 /\ n_procs = 2 /\ AllExited
    /\ Len(claim_log) >= 2 /\ Claimed = 0..2

\* C2: in the pooled engine n_done counts the collect calls and never exceeds N;
\* once the collection loop is left (joining, or run has returned) collect has
\* been called exactly once for the output of each task, N calls in total, and
\* no worker is joined before n_done = N.
C2_CollectedOnce ==
    Pooled =>
      /\ n_done = Len(collect_log) /\ n_done <= N
      /\ (dpc \in {"join", "finished", "returned"} \/ n_joined > 0) =>
            /\ n_done = N
            /\ Injective(collect_log)
            /\ Range(collect_log) = Range(var_names)

C2_Witness ==
    /\ Pooled /\ dpc = "finished" /\ N = 3 /\ n_procs = 2 /\ n_joined = 2
    /\ batch_size = 2 /\ Len(collect_log) = 3

RECURSIVE SequentialResult(_, _, _)
SequentialResult(names, f, k) ==
    IF k = 0 THEN NewResult
    ELSE collect(SequentialResult(names, f, k - 1),
                 work_recover_dynamics_fit_single(names[k], f[names[k]]), names)

\* C4: whatever the engine, the worker count, the batch size and the arrival
\* order of the result batches, the tables recover_dynamics stores (parameter
\* arrays, time matrices, loss matrix) are those of collecting the task outputs
\* sequentially in list order.
C4_SameTables ==
    dpc = "returned" =>
        \E fit_r2 \in BOOLEAN :
            adata = WriteResults(Entered(NewAdata, fit_r2),
                                 SequentialResult(var_names, fate, N))

C4_Witness ==
    /\ Pooled /\ dpc = "returned" /\ N = 3
    /\ collect_log # var_names
    /\ Len(result.idx) >= 2

\* What collect writes, without the order of the idx / L accumulators: the
\* arrays, the matrices, the remembered model and the (index, loss trace) pairs.
Unordered(r) ==
    [tables |-> [r EXCEPT !.idx = <<>>, !.L = <<>>],
     pairs  |-> {<<r.idx[k], r.L[k]>> : k \in DOMAIN r.idx},
     count  |-> <<Len(r.idx), Len(r.L)>>]

Ret(g) == work_recover_dynamics_fit_single(g, fate[g])
\* The genes whose results have not been collected yet.
Pending == {g \in Range(var_names) : fate[g] # "raise"} \ Range(collect_log)

\* C5 as stated: collecting two results of distinct genes in either order leaves
\* the Result object in the same state, idx and L accumulators included.
C5_Commutative ==
    \A g, h \in Pending :
        g # h => collect(collect(result, Ret(g), var_names), Ret(h), var_names)
               = collect(collect(result, Ret(h), var_names), Ret(g), var_names)

\* C5 amended: collecting two results of distinct genes in either order gives
\* the same arrays, matrices and remembered model, and the same (index, loss)
\* pairs in idx / L; only the order of the entries of idx and L differs.
C5_CommutativeUpToOrder ==
    \A g, h \in Pending :
        g # h =>
          Unordered(collect(collect(result, Ret(g), var_names), Ret(h), var_names))
        = Unordered(collect(collect(result, Ret(h), var_names), Ret(g), var_names))

C5_Witness ==
    /\ dpc = "any_order" /\ Len(result.idx) >= 1
    /\ \E g, h \in Pending :
          g # h /\ fate[g] = "fit" /\ fate[h] = "fit" /\ h = var_names[N]

\* C6 as stated: an exception of a gene's fit never leaves
\* work_recover_dynamics_fit_single: it never aborts the sequential loop and
\* never ends a pool worker before it pushed its batch.
C6_ExceptionContained ==
    /\ dpc # "raised"
    /\ \A w \in Workers : wpc[w] # "crashed"

\* C7: collecting an unrecoverable model changes no array, no matrix and neither
\* idx nor L, and in the pooled engine it is counted in n_done; when run has
\* returned, the rows of the recoverable genes hold their own models' values
\* and the rows of the other genes are still missing.
Row(r, g) == <<r.alpha[g], r.beta[g], r.gamma[g], r.t_[g], r.scaling[g], r.T[g],
               r.likelihood[g]>>
C7_UnrecoverableFrame ==
    /\ [][\A g \in Genes :
            (collect_log' = Append(collect_log, g) /\ fate[g] = "unrecoverable") =>
               /\ [result' EXCEPT !.dm = <<>>] = [result EXCEPT !.dm = <<>>]
               /\ Pooled => n_done' = n_done + 1]_vars
    /\ [](dpc = "finished" =>
            \A g \in Genes :
               /\ (g \in Range(var_names) /\ fate[g] = "fit") =>
                     Row(result, g) = Row(CollectRecoverable(NewResult, FittedModel(g, "fit")), g)
               /\ (g \notin Range(var_names) \/ fate[g] # "fit") =>
                     Row(result, g) = Row(NewResult, g))

C7_Witness ==
    /\ Pooled /\ dpc = "finished" /\ N = 3
    /\ \E g \in Range(var_names) : fate[g] = "unrecoverable" /\ g = collect_log[1]
    /\ Len(result.idx) = 2

\* ------------------------------------------------------------------ numbers
\* Parameters are rationals <<numerator, denominator>> in lowest terms with a
\* positive denominator; None (an argument that was not passed) is <<>>.
RECURSIVE GCD(_, _)
GCD(a, b) == IF b = 0 THEN a ELSE GCD(b, a % b)
Abs(a) == IF a < 0 THEN 0 - a ELSE a
QN(n, d) == LET g == GCD(Abs(n), Abs(d))
                sgn == IF d < 0 THEN 0 - 1 ELSE 1
            IN  <<sgn * (n \div g), sgn * (d \div g)>>
Q(n) == <<n, 1>>
QMul(x, y) == QN(x[1] * y[1], x[2] * y[2])
QDiv(x, y) == QN(x[1] * y[2], x[2] * y[1])
QAdd(x, y) == QN(x[1] * y[2] + y[1] * x[2], x[2] * y[2])
QLess(x, y) == x[1] * y[2] < y[1] * x[2]
None == <<>>

\* ------------------------------------------------------------------ DynamicsRecovery
MaxTrace == 2       \* update() is not called once the traces hold this many entries

\* The arguments of update(); t is only handed on to the time assignment.
NoArgs == [t_ |-> None, alpha |-> None, beta |-> None, gamma |-> None,
           scaling |-> None, u0_ |-> None, s0_ |-> None, adjust_t_ |-> TRUE]

\* BaseDynamics.get_vars: the candidate (alpha, beta, gamma, scaling, t_), the
\* arguments passed and the current value of every other parameter.
get_vars(m, a) ==
    [alpha   |-> IF a.alpha = None THEN m.alpha ELSE a.alpha,
     beta    |-> IF a.beta = None THEN m.beta ELSE a.beta,
     gamma   |-> IF a.gamma = None THEN m.gamma ELSE a.gamma,
     scaling |-> IF a.scaling = None THEN m.scaling ELSE a.scaling,
     t_      |-> IF a.t_ = None THEN m.t_ ELSE a.t_]

\* line 260: the loss the candidate has to beat.
LossPrev(m) == IF Len(m.loss) > 0 THEN m.loss[Len(m.loss)] ELSE 1000000

\* Mutant of PerformUpdate: a candidate that only ties is accepted too.
PerformUpdateOnTie(loss, loss_prev) == loss <= loss_prev
\* line 267: perform_update = loss < loss_prev
PerformUpdate(loss, loss_prev) == loss < loss_prev

\* line 277: the stretched switching time is tried only if 0 < alt_t_ < t_.
AltValid(alt_t_, t_) == QLess(Q(0), alt_t_) /\ QLess(alt_t_, t_)

\* line 288: alt_loss * 0.99 <= min_loss or ut_cur * 0.99 < ut_alt
EscapeAccepts(alt_loss, min_loss, ut_cur, ut_alt) ==
    alt_loss * 99 <= min_loss * 100 \/ ut_cur * 99 < ut_alt * 100

\* Mutant of Accept: the new parameters are stored without a trace entry for
\* the loss.
AcceptNoLoss(m, v, ta, loss, a) ==
    [m EXCEPT
       !.steady_u = QMul(@, QDiv(m.scaling, v.scaling)),
       !.u0_ = IF a.u0_ # None THEN a.u0_ ELSE QMul(@, QDiv(m.scaling, v.scaling)),
       !.s0_ = IF a.s0_ # None THEN a.s0_ ELSE @,
       !.ta = ta,
       !.alpha = v.alpha, !.beta = v.beta, !.gamma = v.gamma,
       !.scaling = v.scaling, !.t_ = v.t_,
       !.pars = Append(@, <<v.alpha, v.beta, v.gamma, v.t_, v.scaling>>)]

\* Mutant of Accept: steady_u and u0_ are multiplied by new / old scaling.
AcceptInverseScale(m, v, ta, loss, a) ==
    [m EXCEPT
       !.steady_u = QMul(@, QDiv(v.scaling, m.scaling)),
       !.u0_ = IF a.u0_ # None THEN a.u0_ ELSE QMul(@, QDiv(v.scaling, m.scaling)),
       !.s0_ = IF a.s0_ # None THEN a.s0_ ELSE @,
       !.ta = ta,
       !.alpha = v.alpha, !.beta = v.beta, !.gamma = v.gamma,
       !.scaling = v.scaling, !.t_ = v.t_,
       !.pars = Append(@, <<v.alpha, v.beta, v.gamma, v.t_, v.scaling>>),
       !.loss = Append(@, loss)]

\* Mutant of Accept: the appended column holds scaling before t_.
AcceptSwappedRows(m, v, ta, loss, a) ==
    [m EXCEPT
       !.steady_u = QMul(@, QDiv(m.scaling, v.scaling)),
       !.u0_ = IF a.u0_ # None THEN a.u0_ ELSE QMul(@, QDiv(m.scaling, v.scaling)),
       !.s0_ = IF a.s0_ # None THEN a.s0_ ELSE @,
       !.ta = ta,
       !.alpha = v.alpha, !.beta = v.beta, !.gamma = v.gamma,
       !.scaling = v.scaling, !.t_ = v.t_,
       !.pars = Append(@, <<v.alpha, v.beta, v.gamma, v.scaling, v.t_>>),
       !.loss = Append(@, loss)]

\* lines 300-314: the accepted state replaces the current one; v is the
\* accepted (alpha, beta, gamma, scaling, t_), ta its time assignment.
Accept(m, v, ta, loss, a) ==
    [m EXCEPT
       !.steady_u = QMul(@, QDiv(m.scaling, v.scaling)),
       !.u0_ = IF a.u0_ # None THEN a.u0_ ELSE QMul(@, QDiv(m.scaling, v.scaling)),
       !.s0_ = IF a.s0_ # None THEN a.s0_ ELSE @,
       !.ta = ta,
       !.alpha = v.alpha, !.beta = v.beta, !.gamma = v.gamma,
       !.scaling = v.scaling, !.t_ = v.t_,
       !.pars = Append(@, <<v.alpha, v.beta, v.gamma, v.t_, v.scaling>>),
       !.loss = Append(@, loss)]

\* Mutant of Reject: the explicit u0_ / s0_ arguments are stored although the
\* candidate was rejected.
RejectKeepsArgs(m, a) ==
    [m EXCEPT !.u0_ = IF a.u0_ # None THEN a.u0_ ELSE @,
              !.s0_ = IF a.s0_ # None THEN a.s0_ ELSE @]
\* line 300 with perform_update False: nothing is assigned.
Reject(m, a) == m

\* DynamicsRecovery.update. o holds what the numerical routines return in this
\* call: loss1 / on1 the candidate's loss and whether its time assignment has an
\* observation with o == 1, loss2 the recomputed loss of the current state,
\* tOnMax = t[on].max(), inc = np.max(t) / len(t) * np.sum(t == t_), alt_loss and
\* on3 the loss and assignment at the stretched switching time, ut_cur and
\* ut_alt the unspliced levels at the two switching times.
\* The value is the new model, the value returned and the rule that accepted:
\* "loss" for line 267, "escape_loss" / "escape_ut" for the first / only the
\* second condition of line 288.
update(m, a, o) ==
    LET loss_prev == LossPrev(m)
        cand      == get_vars(m, a)
        perform1  == PerformUpdate(o.loss1, loss_prev)
        plain     == [v |-> cand, ta |-> [on |-> o.on1], loss |-> o.loss1,
                      perform |-> perform1, rule |-> IF perform1 THEN "loss" ELSE "none"]
        tried     == IF a.adjust_t_ /\ m.ta.on
                     THEN LET v0    == IF perform1 THEN cand ELSE get_vars(m, NoArgs)
                              loss0 == IF perform1 THEN o.loss1 ELSE o.loss2
                          IN  IF AltValid(o.tOnMax, v0.t_)
                              THEN LET alt_t_   == QAdd(o.tOnMax, o.inc)
                                       min_loss == Min(loss0, loss_prev)
                                   IN  IF EscapeAccepts(o.alt_loss, min_loss, o.ut_cur, o.ut_alt)
                                       THEN [v |-> [v0 EXCEPT !.t_ = alt_t_],
                                             ta |-> [on |-> o.on3], loss |-> o.alt_loss,
                                             perform |-> TRUE,
                                             rule |-> IF o.alt_loss * 99 <= min_loss * 100
                                                      THEN "escape_loss" ELSE "escape_ut"]
                                       ELSE plain
                              ELSE plain
                     ELSE plain
    IN  [dm   |-> IF tried.perform
                  THEN Accept(m, tried.v, tried.ta, tried.loss, a)
                  ELSE Reject(m, a),
         last |-> [ret |-> tried.perform, rule |-> tried.rule]]

\* What the numerical routines (get_time_assignment, get_loss, unspliced,
\* linreg, tau_inv, test_bimodality) can return, as small sets.
LossVals   == {100, 101, 102}
FirstLoss  == {100, 101}                \* get_loss() of line 94: the least loss, and one with losses below it
Proposals  == {Q(1), Q(2)}              \* a parameter value the optimizer proposes
TOnMax     == {Q(0), Q(1)}              \* t[on].max()
Stretch    == {Q(0), Q(2)}              \* np.max(t) / len(t) * np.sum(t == t_)
UtCur      == 100                       \* unspliced(t_, 0, alpha, beta)
UtAlt      == {99, 100}                 \* unspliced(alt_t_, 0, alpha, beta)
StdPairs   == {<<Q(0), Q(1)>>, <<Q(2), Q(1)>>}      \* np.std(u_w), np.std(s_w)
GammaReg   == {Q(1)}                    \* linreg(...) + 1e-6
\* test_bimodality (lines 64-66): both calls return, or the first returns
\* (pval_u, means_u assigned) and the second raises.
Bimodal    == {[raised |-> TRUE,  pval_u |-> Q(0), pval_s |-> Q(0), mean_u |-> Q(4), mean_s |-> Q(0)],
               [raised |-> FALSE, pval_u |-> Q(0), pval_s |-> Q(0), mean_u |-> Q(4), mean_s |-> Q(3)]}

\* Mutant of initialize: the except branch of lines 67-69 assigns nothing.
initializeNoDefaults(inp) ==
    LET zero    == inp.std_u = Q(0) \/ inp.std_s = Q(0)
        std_u   == IF zero THEN Q(1) ELSE inp.std_u
        std_s   == IF zero THEN Q(1) ELSE inp.std_s
        scaling == QDiv(std_u, std_s)
        gamma0  == inp.gamma
        gamma   == IF QLess(gamma0, QDiv(<<5, 100>>, scaling)) THEN QMul(gamma0, <<12, 10>>)
                   ELSE IF QLess(QDiv(<<15, 10>>, scaling), gamma0) THEN QDiv(gamma0, <<12, 10>>)
                   ELSE gamma0
        u_inf   == inp.u_inf
        s_inf   == inp.s_inf
        bm      == inp.bimodal
        pval_steady == IF QLess(bm.pval_u, bm.pval_s) THEN bm.pval_s ELSE bm.pval_u
        steady  == QLess(pval_steady, <<1, 1000>>)
        u_inf2  == IF steady THEN QDiv(QAdd(u_inf, bm.mean_u), Q(2)) ELSE u_inf
        alpha   == IF steady THEN QMul(gamma, s_inf) ELSE QMul(u_inf, Q(1))
        beta    == IF steady THEN QDiv(alpha, u_inf2) ELSE Q(1)
    IN  [std_u |-> std_u, std_s |-> std_s, pval_steady |-> pval_steady,
         steady_u |-> bm.mean_u, steady_s |-> bm.mean_s,
         alpha |-> alpha, beta |-> beta, gamma |-> gamma, scaling |-> scaling,
         u0_ |-> u_inf2, s0_ |-> s_inf, t_ |-> inp.t_,
         pars |-> << <<alpha, beta, gamma, inp.t_, scaling>> >>,
         ta |-> [on |-> inp.on], loss |-> <<inp.loss>>,
         steady_state_ratio |-> None,
         warned |-> inp.bimodal.raised]

\* lines 26-94 of initialize: the model after the first time assignment and
\* loss; inp holds the statistics of the gene's data.
initialize(inp) ==
    LET zero    == inp.std_u = Q(0) \/ inp.std_s = Q(0)
        std_u   == IF zero THEN Q(1) ELSE inp.std_u
        std_s   == IF zero THEN Q(1) ELSE inp.std_s
        scaling == QDiv(std_u, std_s)
        gamma0  == inp.gamma
        gamma   == IF QLess(gamma0, QDiv(<<5, 100>>, scaling)) THEN QMul(gamma0, <<12, 10>>)
                   ELSE IF QLess(QDiv(<<15, 10>>, scaling), gamma0) THEN QDiv(gamma0, <<12, 10>>)
                   ELSE gamma0
        u_inf   == inp.u_inf
        s_inf   == inp.s_inf
        bm      == IF inp.bimodal.raised
                   THEN [pval_u |-> Q(1), pval_s |-> Q(1), mean_u |-> Q(0), mean_s |-> Q(0)]
                   ELSE inp.bimodal
        pval_steady == IF QLess(bm.pval_u, bm.pval_s) THEN bm.pval_s ELSE bm.pval_u
        steady  == QLess(pval_steady, <<1, 1000>>)
        u_inf2  == IF steady THEN QDiv(QAdd(u_inf, bm.mean_u), Q(2)) ELSE u_inf
        alpha   == IF steady THEN QMul(gamma, s_inf) ELSE QMul(u_inf, Q(1))
        beta    == IF steady THEN QDiv(alpha, u_inf2) ELSE Q(1)
    IN  [std_u |-> std_u, std_s |-> std_s, pval_steady |-> pval_steady,
         steady_u |-> bm.mean_u, steady_s |-> bm.mean_s,
         alpha |-> alpha, beta |-> beta, gamma |-> gamma, scaling |-> scaling,
         u0_ |-> u_inf2, s0_ |-> s_inf, t_ |-> inp.t_,
         pars |-> << <<alpha, beta, gamma, inp.t_, scaling>> >>,
         ta |-> [on |-> inp.on], loss |-> <<inp.loss>>,
         steady_state_ratio |-> None,
         warned |-> inp.bimodal.raised]

\* line 104: the k-th value of z_vals, k = 0..3 with sight 0.5 (line 96) and
\* k = 4..7 with sight 0.1 (line 97); base is self.scaling when the pass began.
ZVal(base, k) ==
    LET sight == IF k < 4 THEN <<1, 2>> ELSE <<1, 10>>
        lin   == QN(2 * (k % 4) - 3, 3)          \* np.linspace(-1, 1, num=4)
    IN  QAdd(base, QMul(QMul(lin, base), sight))

ModelInit ==
    /\ request = NoRequest
    /\ var_names = <<>> /\ fate = [g \in Genes |-> "fit"]
    /\ engine = "None" /\ n_procs = 0 /\ batch_size = 0
    /\ shared_task_counter = 0 /\ lock = 0 /\ queue = <<>>
    /\ wpc = [w \in Workers |-> "new"]
    /\ genes = [w \in Workers |-> <<>>]
    /\ rets = [w \in Workers |-> <<>>]
    /\ dpc = "model"
    /\ n_started = 0 /\ n_joined = 0 /\ n_done = 0 /\ drets = <<>>
    /\ seq_i = 1 /\ seq_ret = <<>>
    /\ result = NewResult /\ adata = NewAdata
    /\ claim_log = <<>> /\ put_log = <<>> /\ collect_log = <<>>
    /\ aligned = <<>>
    /\ dm = <<>> /\ mpc = [at |-> "new", k |-> 0, base |-> None]
    /\ last = [ret |-> FALSE, rule |-> "init", explicit |-> FALSE]
    /\ fit_log = <<>>

\* DynamicsRecovery.__init__ of a recoverable gene, up to the first loss.
Initialize ==
    /\ mpc.at = "new"
    /\ \E sd \in StdPairs, g \in GammaReg, bm \in Bimodal, o \in BOOLEAN, l \in FirstLoss :
         LET m == initialize([std_u |-> sd[1], std_s |-> sd[2], gamma |-> g,
                              u_inf |-> Q(2), s_inf |-> Q(1), bimodal |-> bm,
                              t_ |-> Q(2), on |-> o, loss |-> l])
         IN  /\ dm' = m
             /\ mpc' = [at |-> "scaling", k |-> 0, base |-> m.scaling]
    /\ UNCHANGED <<engine_vars, last, fit_log>>

\* The results the routines can return in one call of update with arguments
\* a on model m; a result the call does not use is not varied.
Oracles(a, m) ==
    LET dflt == [loss1 |-> 0, on1 |-> FALSE, loss2 |-> 0, tOnMax |-> Q(0), inc |-> Q(0),
                 alt_loss |-> 0, on3 |-> FALSE, ut_cur |-> UtCur, ut_alt |-> UtCur]
        Plain(o, p) == IF p THEN {[o EXCEPT !.on1 = b] : b \in BOOLEAN} ELSE {o}
    IN  UNION {
          LET p  == PerformUpdate(l1, LossPrev(m))
              o1 == [dflt EXCEPT !.loss1 = l1]
          IN  IF ~(a.adjust_t_ /\ m.ta.on) THEN Plain(o1, p)
              ELSE UNION {
                LET o2 == [o1 EXCEPT !.loss2 = l2, !.tOnMax = tm]
                    t0 == IF p THEN get_vars(m, a).t_ ELSE m.t_
                IN  IF ~AltValid(tm, t0) THEN Plain(o2, p)
                    ELSE UNION {
                      LET o3 == [o2 EXCEPT !.alt_loss = al, !.ut_alt = ua]
                      IN  IF EscapeAccepts(al, Min(l2, LossPrev(m)), UtCur, ua)
                          THEN {[o3 EXCEPT !.inc = inc, !.on3 = b] :
                                  inc \in Stretch, b \in BOOLEAN}
                          ELSE Plain(o3, p)
                      : al \in LossVals, ua \in UtAlt }
                : l2 \in (IF p THEN {l1} ELSE LossVals), tm \in TOnMax }
          : l1 \in LossVals }

\* One call of update.
Call(a, m) == {update(m, a, o) : o \in Oracles(a, m)}

\* The call passes explicit u0_ / s0_ values.
Explicit(a) == a.u0_ # None \/ a.s0_ # None

\* lines 103-106: the next update of initialize_scaling (four per pass).
InitializeScaling ==
    /\ mpc.at = "scaling" /\ mpc.k < 8
    /\ Len(dm.loss) < MaxTrace
    /\ LET z == ZVal(mpc.base, mpc.k)
           a == [NoArgs EXCEPT !.scaling = z,
                               !.beta = QMul(QDiv(dm.beta, dm.scaling), z)]
       IN  \E r \in Call(a, dm) :
             /\ dm' = r.dm
             /\ last' = [ret |-> r.last.ret, rule |-> r.last.rule,
                         explicit |-> Explicit(a)]
             /\ mpc' = [mpc EXCEPT !.k = @ + 1,
                                    !.base = IF mpc.k = 3 THEN r.dm.scaling ELSE @]
    /\ UNCHANGED <<engine_vars, fit_log>>

\* lines 99-101: initialize returns after the second pass.
FinishInitialize ==
    /\ mpc.at = "scaling" /\ mpc.k = 8
    /\ dm' = [dm EXCEPT !.steady_state_ratio = QDiv(dm.gamma, dm.beta)]
    /\ mpc' = [at |-> "ready", k |-> 0, base |-> None]
    /\ UNCHANGED <<engine_vars, last, fit_log>>

\* The argument combinations update is called with (lines 125-236), one with
\* explicit u0_, s0_ and scaling, which the signature allows, and one with
\* negative rates (the simplex search of lines 184-185 is unconstrained).
UpdateArgs ==
    UNION { { [NoArgs EXCEPT !.t_ = x, !.alpha = x],
              [NoArgs EXCEPT !.alpha = x, !.gamma = x],
              [NoArgs EXCEPT !.t_ = x, !.alpha = x, !.beta = x, !.gamma = x],
              [NoArgs EXCEPT !.t_ = x, !.beta = x, !.scaling = x],
              [NoArgs EXCEPT !.u0_ = x, !.s0_ = x, !.scaling = x] } : x \in Proposals }
    \cup { NoArgs, [NoArgs EXCEPT !.adjust_t_ = FALSE],
           [NoArgs EXCEPT !.alpha = Q(0 - 1), !.gamma = Q(0 - 1)] }

\* A call of update on the initialized model, from fit or from a callback of
\* the optimizer.
Update ==
    /\ mpc.at = "ready"
    /\ Len(dm.loss) < MaxTrace
    /\ \E a \in UpdateArgs : \E r \in Call(a, dm) :
         /\ dm' = r.dm
         /\ last' = [ret |-> r.last.ret, rule |-> r.last.rule,
                     explicit |-> Explicit(a)]
    /\ UNCHANGED <<engine_vars, mpc, fit_log>>

\* fit() of a model built with max_iter == 0: the stages of lines 109-126 are
\* skipped, line 130 calls update() without arguments, lines 131-133 compute
\* the divergence, the likelihood and the variance.
Fit ==
    /\ mpc.at = "ready"
    /\ Len(dm.loss) < MaxTrace
    /\ \E r \in Call(NoArgs, dm) :
         /\ dm' = r.dm
         /\ last' = [ret |-> r.last.ret, rule |-> r.last.rule,
                     explicit |-> Explicit(NoArgs)]
    /\ mpc' = [mpc EXCEPT !.at = "fitted"]
    /\ UNCHANGED <<engine_vars, fit_log>>

ModelNext == Initialize \/ InitializeScaling \/ FinishInitialize \/ Update \/ Fit
ModelSpec == ModelInit /\ [][ModelNext]_vars

\* The models initialize() can leave behind when every update of its two
\* scaling passes is rejected.
ReadyModels ==
    {LET m == initialize([std_u |-> sd[1], std_s |-> sd[2], gamma |-> g,
                          u_inf |-> Q(2), s_inf |-> Q(1), bimodal |-> bm,
                          t_ |-> Q(2), on |-> o, loss |-> l])
     IN  [m EXCEPT !.steady_state_ratio = QDiv(m.gamma, m.beta)]
     : sd \in StdPairs, g \in GammaReg, bm \in Bimodal, o \in BOOLEAN, l \in FirstLoss}

\* One call of update on an initialized model, remembered with its arguments
\* and with the loss get_loss returned for its candidate (line 266).
CallInit ==
    /\ request = NoRequest
    /\ var_names = <<>> /\ fate = [g \in Genes |-> "fit"]
    /\ engine = "None" /\ n_procs = 0 /\ batch_size = 0
    /\ shared_task_counter = 0 /\ lock = 0 /\ queue = <<>>
    /\ wpc = [w \in Workers |-> "new"]
    /\ genes = [w \in Workers |-> <<>>]
    /\ rets = [w \in Workers |-> <<>>]
    /\ dpc = "model"
    /\ n_started = 0 /\ n_joined = 0 /\ n_done = 0 /\ drets = <<>>
    /\ seq_i = 1 /\ seq_ret = <<>>
    /\ result = NewResult /\ adata = NewAdata
    /\ claim_log = <<>> /\ put_log = <<>> /\ collect_log = <<>>
    /\ aligned = <<>>
    /\ dm \in ReadyModels /\ mpc = [at |-> "ready", k |-> 0, base |-> None]
    /\ last = [ret |-> FALSE, rule |-> "init", explicit |-> FALSE,
               a |-> NoArgs, loss1 |-> 0]
    /\ fit_log = <<>>

CallUpdate ==
    /\ mpc.at = "ready"
    /\ last.rule = "init"
    /\ \E a \in UpdateArgs : \E o \in Oracles(a, dm) :
         LET r == update(dm, a, o)
         IN  /\ dm' = r.dm
             /\ last' = [ret |-> r.last.ret, rule |-> r.last.rule,
                         explicit |-> Explicit(a), a |-> a, loss1 |-> o.loss1]
    /\ UNCHANGED <<engine_vars, mpc, fit_log>>

CallSpec == CallInit /\ [][CallUpdate]_vars

\* ------------------------------------------------------------------ fit with max_iter > 0
\* The most iterates the optimizer hands to its callback in one search.
MaxIter == 1

\* Mutant of StageAt: the time-only search runs before the rates-only search.
StageAtSwapped(i) ==
    <<"fit_t_and_alpha", "fit_scaling_", "fit_t_", "fit_rates", "fit_t_and_rates",
      "assignment_mode", "fit_t_and_rates", "update">>[i]
\* lines 115-130: the i-th statement of fit() that calls update, directly or
\* through a search.
StageAt(i) ==
    <<"fit_t_and_alpha", "fit_scaling_", "fit_rates", "fit_t_", "fit_t_and_rates",
      "assignment_mode", "fit_t_and_rates", "update">>[i]
IsSearch(i) == StageAt(i) \notin {"assignment_mode", "update"}

\* np.linspace(-1, 1, num=5)
Linspace5 == <<Q(0 - 1), QN(0 - 1, 2), Q(0), QN(1, 2), Q(1)>>
\* The calls of update a search makes before it calls minimize: fit_t_and_alpha
\* walks alpha_vals (lines 172-174), the other searches of fit() have no loop
\* (lines 177-217).
SeedCount(stage) == IF stage = "fit_t_and_alpha" THEN 5 ELSE 0
\* alpha_vals[k] = self.alpha + np.linspace(-1, 1, num=5)[k] * self.alpha / 10,
\* with self.alpha read when the search begins.
SeedArgs(base, k) ==
    [NoArgs EXCEPT !.alpha = QAdd(base, QDiv(QMul(Linspace5[k], base), Q(10)))]

\* The arguments a search passes to update for the point x of the optimizer,
\* in its callback (lines 220-233) and after minimize returned.
StageArgs(stage, x) ==
    CASE stage = "fit_t_and_alpha" -> [NoArgs EXCEPT !.t_ = x, !.alpha = x]
      [] stage = "fit_scaling_"    -> [NoArgs EXCEPT !.t_ = x, !.beta = x, !.scaling = x]
      [] stage = "fit_rates"       -> [NoArgs EXCEPT !.alpha = x, !.gamma = x]
      [] stage = "fit_t_"          -> [NoArgs EXCEPT !.t_ = x]
      [] stage = "fit_t_and_rates" -> [NoArgs EXCEPT !.t_ = x, !.alpha = x,
                                                     !.beta = x, !.gamma = x]

\* One call of update inside fit(), for data with no observation at the
\* switching time (np.sum(t == t_) is 0) and time assignments that keep
\* observations with o == 1; an accepted result is followed while the trace
\* is short.
FitCall(a, m) ==
    {r \in {update(m, a, o) : o \in {x \in Oracles(a, m) : x.inc = Q(0)}} :
        r.last.ret => (Len(m.loss) < MaxTrace /\ r.dm.ta.on)}

\* The position at the statement after stage i.
Advance(i, m) ==
    [mpc EXCEPT !.stage = i + 1, !.k = 0, !.opt = FALSE, !.it = 0, !.seen = 0,
                !.base = m.alpha]

\* lines 238-246: set_callbacks replaces the six callbacks by None unless
\* high_pars_resolution is set; the value says whether they are kept.
set_callbacks(high_pars_resolution) == high_pars_resolution
\* lines 19-24: set_callbacks is called at the end of initialize (line 101)
\* only; a model built with load_pars on a container with stored parameters
\* does not run initialize and keeps the callbacks of the class.
CallbacksOf(load_pars, high_pars_resolution) ==
    IF load_pars THEN TRUE ELSE set_callbacks(high_pars_resolution)

\* A model about to run fit() with max_iter > 0, built by initialize or with
\* load_pars; cb says whether its callbacks are kept.
FitInit ==
    /\ request = NoRequest
    /\ var_names = <<>> /\ fate = [g \in Genes |-> "fit"]
    /\ engine = "None" /\ n_procs = 0 /\ batch_size = 0
    /\ shared_task_counter = 0 /\ lock = 0 /\ queue = <<>>
    /\ wpc = [w \in Workers |-> "new"]
    /\ genes = [w \in Workers |-> <<>>]
    /\ rets = [w \in Workers |-> <<>>]
    /\ dpc = "model"
    /\ n_started = 0 /\ n_joined = 0 /\ n_done = 0 /\ drets = <<>>
    /\ seq_i = 1 /\ seq_ret = <<>>
    /\ result = NewResult /\ adata = NewAdata
    /\ claim_log = <<>> /\ put_log = <<>> /\ collect_log = <<>>
    /\ aligned = <<>>
    /\ dm \in {m \in ReadyModels : m.ta.on /\ m.loss = <<101>> /\ m.steady_u # Q(0)
                                    /\ m.scaling # Q(1)}
    /\ \E load_pars \in BOOLEAN, high_pars_resolution \in BOOLEAN :
         mpc = [at |-> "fit", stage |-> 1, k |-> 0, opt |-> FALSE, it |-> 0, seen |-> 0,
                base |-> dm.alpha, load_pars |-> load_pars,
                high_pars_resolution |-> high_pars_resolution,
                cb |-> CallbacksOf(load_pars, high_pars_resolution)]
    /\ last = [ret |-> FALSE, rule |-> "init", explicit |-> FALSE]
    /\ fit_log = <<>>

\* lines 173-174: the next update of the loop over alpha_vals.
FitSeed ==
    /\ mpc.at = "fit" /\ IsSearch(mpc.stage) /\ ~mpc.opt
    /\ mpc.k < SeedCount(StageAt(mpc.stage))
    /\ \E r \in FitCall(SeedArgs(mpc.base, mpc.k + 1), dm) :
         /\ dm' = r.dm
         /\ last' = [ret |-> r.last.ret, rule |-> r.last.rule, explicit |-> FALSE]
    /\ mpc' = [mpc EXCEPT !.k = @ + 1]
    /\ fit_log' = Append(fit_log, <<StageAt(mpc.stage), "seed">>)
    /\ UNCHANGED engine_vars

\* The search calls minimize, starting from the current parameters.
FitMinimize ==
    /\ mpc.at = "fit" /\ IsSearch(mpc.stage) /\ ~mpc.opt
    /\ mpc.k = SeedCount(StageAt(mpc.stage))
    /\ mpc' = [mpc EXCEPT !.opt = TRUE]
    /\ fit_log' = Append(fit_log, <<StageAt(mpc.stage), "minimize">>)
    /\ UNCHANGED <<engine_vars, dm, last>>

\* The optimizer hands an iterate to the callback of the search, if the
\* callbacks were kept.
FitCallback ==
    /\ mpc.at = "fit" /\ IsSearch(mpc.stage) /\ mpc.opt
    /\ mpc.cb /\ mpc.it < MaxIter
    /\ \E x \in Proposals : \E r \in FitCall(StageArgs(StageAt(mpc.stage), x), dm) :
         /\ dm' = r.dm
         /\ last' = [ret |-> r.last.ret, rule |-> r.last.rule, explicit |-> FALSE]
    /\ mpc' = [mpc EXCEPT !.it = @ + 1, !.seen = @ + 1]
    /\ UNCHANGED <<engine_vars, fit_log>>

\* The optimizer moves to its next iterate with callback=None: minimize calls
\* nothing and update does not see the iterate.
FitIterate ==
    /\ mpc.at = "fit" /\ IsSearch(mpc.stage) /\ mpc.opt
    /\ ~mpc.cb /\ mpc.it < MaxIter
    /\ mpc' = [mpc EXCEPT !.it = @ + 1]
    /\ UNCHANGED <<engine_vars, dm, last, fit_log>>

\* minimize returns and the search passes res.x to update (the last line of
\* each fit_* function), then fit() goes on to its next statement.
FitResult ==
    /\ mpc.at = "fit" /\ IsSearch(mpc.stage) /\ mpc.opt
    /\ \E x \in Proposals : \E r \in FitCall(StageArgs(StageAt(mpc.stage), x), dm) :
         /\ dm' = r.dm
         /\ last' = [ret |-> r.last.ret, rule |-> r.last.rule, explicit |-> FALSE]
         /\ mpc' = Advance(mpc.stage, r.dm)
    /\ fit_log' = Append(fit_log, <<StageAt(mpc.stage), "result">>)
    /\ UNCHANGED engine_vars

\* lines 124-125: the assignment mode is switched and update(adjust_t_=False)
\* is called.
FitSwitch ==
    /\ mpc.at = "fit" /\ StageAt(mpc.stage) = "assignment_mode"
    /\ \E r \in FitCall([NoArgs EXCEPT !.adjust_t_ = FALSE], dm) :
         /\ dm' = r.dm
         /\ last' = [ret |-> r.last.ret, rule |-> r.last.rule, explicit |-> FALSE]
         /\ mpc' = Advance(mpc.stage, r.dm)
    /\ fit_log' = Append(fit_log, <<"assignment_mode", "update">>)
    /\ UNCHANGED engine_vars

\* lines 130-133: update() without arguments, then the divergence, the
\* likelihood and the variance; fit() returns.
FitFinal ==
    /\ mpc.at = "fit" /\ StageAt(mpc.stage) = "update"
    /\ \E r \in FitCall(NoArgs, dm) :
         /\ dm' = r.dm
         /\ last' = [ret |-> r.last.ret, rule |-> r.last.rule, explicit |-> FALSE]
    /\ mpc' = [mpc EXCEPT !.at = "fitted"]
    /\ fit_log' = Append(Append(fit_log, <<"update", "update">>), <<"update", "finish">>)
    /\ UNCHANGED engine_vars

FitNext == \/ FitSeed \/ FitMinimize \/ FitCallback \/ FitIterate \/ FitResult
           \/ FitSwitch \/ FitFinal
FitSpec == FitInit /\ [][FitNext]_vars

\* ------------------------------------------------------------------ claims: update
\* The next step of the model is a call of update.
InUpdate == (mpc.at = "scaling" /\ mpc.k < 8) \/ mpc.at = "ready"
\* The step is fit() with max_iter == 0, start to return.
FitStep == mpc.at = "ready" /\ mpc'.at = "fitted"
Initialized == mpc.at # "new"
Last(q) == q[Len(q)]
IsPrefix(p, q) == Len(p) <= Len(q) /\ SubSeq(q, 1, Len(p)) = p

\* C8: a call of update that returns False leaves the whole model as it was:
\* the parameters, u0_, s0_, steady_u, the time assignment and both traces,
\* whatever arguments were passed.
C8_RejectLeavesState == [][InUpdate /\ ~last'.ret => dm' = dm]_vars
C8_Witness == mpc.at = "ready" /\ ~last.ret /\ last.rule = "none" /\ last.explicit

\* C9: the parameter trace and the loss trace always have the same length,
\* neither ever loses or changes an entry, a call of update that returns True
\* appends exactly one entry to each and one that returns False appends none.
C9_TracesParallel ==
    /\ [](Initialized => Len(dm.pars) = Len(dm.loss) /\ Len(dm.loss) >= 1)
    /\ [][Initialized => /\ IsPrefix(dm.pars, dm'.pars)
                         /\ IsPrefix(dm.loss, dm'.loss)
                         /\ Len(dm'.pars) = Len(dm.pars)
                                            + (IF InUpdate /\ last'.ret THEN 1 ELSE 0)
                         /\ Len(dm'.loss) = Len(dm.loss)
                                            + (IF InUpdate /\ last'.ret THEN 1 ELSE 0)]_vars
C9_Witness == mpc.at = "ready" /\ last.ret /\ Len(dm.loss) = 2 /\ Len(dm.pars) = 2

\* C10 as stated: every appended loss is at most the preceding entry, unless
\* the escape rule accepted it, and then it is within 1% of the best of the
\* current and the previous loss (which is at most the preceding entry).
C10_EscapeWithinOnePercent ==
    [][InUpdate /\ last'.ret =>
         \/ Last(dm'.loss) <= Last(dm.loss)
         \/ /\ last'.rule \in {"escape_loss", "escape_ut"}
            /\ Last(dm'.loss) * 99 <= Last(dm.loss) * 100]_vars

\* C10: every appended loss is strictly below the preceding entry if the
\* candidate was accepted on its loss, and within 1% of it if the escape rule
\* accepted on the loss; an entry the escape rule accepted on the unspliced
\* level alone is not bounded.
C10_LossBoundedUnlessUt ==
    [][InUpdate /\ last'.ret =>
         \/ last'.rule = "loss" /\ Last(dm'.loss) < Last(dm.loss)
         \/ last'.rule = "escape_loss" /\ Last(dm'.loss) * 99 <= Last(dm.loss) * 100
         \/ last'.rule = "escape_ut"]_vars
C10_Witness == /\ Initialized /\ last.ret /\ last.rule = "escape_loss"
               /\ Len(dm.loss) >= 2
               /\ dm.loss[Len(dm.loss)] > dm.loss[Len(dm.loss) - 1]

\* C11 as stated: fit() with max_iter == 0 changes neither alpha, beta, gamma,
\* t_, scaling, nor the time assignment, nor either trace.
C11_FitZeroNoTransition ==
    [][FitStep => /\ dm'.alpha = dm.alpha /\ dm'.beta = dm.beta /\ dm'.gamma = dm.gamma
                  /\ dm'.t_ = dm.t_ /\ dm'.scaling = dm.scaling /\ dm'.ta = dm.ta
                  /\ dm'.pars = dm.pars /\ dm'.loss = dm.loss]_vars

\* ------------------------------------------------------------------ claims: recover_dynamics
\* Nothing of an engine run has happened: no process started, no task claimed,
\* no work output produced, nothing collected.
NothingDispatched ==
    /\ n_started = 0 /\ \A w \in Workers : wpc[w] = "new" /\ rets[w] = <<>>
    /\ shared_task_counter = 0 /\ claim_log = <<>> /\ queue = <<>>
    /\ seq_ret = <<>> /\ collect_log = <<>> /\ n_done = 0

C13_SequentialOrder ==
    engine = "Sequential" =>
      /\ seq_i = Len(collect_log) + 1
      /\ collect_log = SubSeq(var_names, 1, seq_i - 1)
      /\ dpc = "seq_collect" =>
            /\ seq_i <= N
            /\ seq_ret = <<work_recover_dynamics_fit_single(var_names[seq_i],
                                                            fate[var_names[seq_i]])>>
      /\ dpc # "seq_collect" => seq_ret = <<>>
      /\ dpc \in {"finished", "returned"} => collect_log = var_names
C13_Witness ==
    /\ engine = "Sequential" /\ dpc = "finished" /\ N = 3
    /\ collect_log = var_names /\ collect_log # <<1, 2, 3>>

\* The width of the stored loss matrix (0 while there is none) and a row
\* right-padded with the missing value.
Width(a) == IF "loss" \in a.keys THEN Len(a.loss[1]) ELSE 0
PadTo(row, w) == [j \in 1..w |-> IF j <= Len(row) THEN row[j] ELSE NaN]

\* C14: over repeated calls on one container the loss matrix never gets
\* narrower; a call that recovered a gene leaves, for each gene it did not
\* recover, the stored row padded to the new width, and for each gene it
\* recovered the new trace padded to the new width; a call that recovered no
\* gene leaves the matrix as it was.
C14_LossMatrixGrows ==
    [][LET refit == Range(result'.idx)
           w     == Width(adata')
       IN  /\ Width(adata') >= Width(adata)
           /\ refit = {} => adata'.loss = adata.loss
           /\ refit # {} =>
                /\ "loss" \in adata'.keys
                /\ \A g \in Genes \ refit : adata'.loss[g] = PadTo(adata.loss[g], w)
                /\ \A k \in DOMAIN result'.idx :
                      /\ Len(result'.L[k]) <= w
                      /\ adata'.loss[result'.idx[k]] = PadTo(result'.L[k], w)]_vars
C14_Witness ==
    /\ dpc = "calls" /\ Width(adata) = 4
    /\ \E g \in Genes \ Range(result.idx), h \in Range(result.idx) :
          /\ adata.loss[g][1] # NaN /\ adata.loss[g][4] = NaN
          /\ adata.loss[h][1] # NaN /\ adata.loss[h][2] = NaN

\* C15 as stated: the model never holds a negative rate, in its current
\* parameters or in any snapshot of the parameter trace.
NonNegative(x) == x[1] >= 0
C15_NoNegativeRates ==
    Initialized =>
      /\ NonNegative(dm.alpha) /\ NonNegative(dm.beta) /\ NonNegative(dm.gamma)
      /\ \A k \in DOMAIN dm.pars :
            NonNegative(dm.pars[k][1]) /\ NonNegative(dm.pars[k][2])
            /\ NonNegative(dm.pars[k][3])

\* ------------------------------------------------------------------ claims: pool worker
\* The number of task indices claimed so far.
ClaimedTasks == Cardinality(Claimed)

\* C16 as stated: every claim advances the counter by the number of indices it
\* took, so the counter never exceeds N and is N once every task is claimed.
C16_CounterWithinN ==
    Pooled => /\ shared_task_counter <= N
              /\ ClaimedTasks = N => shared_task_counter = N

\* C16: every claim advances the counter by batch_size, whether or not that many
\* tasks remained: the counter is batch_size times the number of claims, the
\* claimed indices are those below min(counter, N), the counter stays below
\* N + batch_size, and it is at least N once every task is claimed.
C16_CounterAdvancesByBatch ==
    Pooled => /\ shared_task_counter = batch_size * Len(claim_log)
              /\ Claimed = 0..(Min(shared_task_counter, N) - 1)
              /\ shared_task_counter < N + batch_size
              /\ ClaimedTasks = N => shared_task_counter >= N
C16_Witness ==
    /\ Pooled /\ N = 3 /\ batch_size = 2 /\ ClaimedTasks = N
    /\ shared_task_counter = 4 /\ Len(claim_log) = 2 /\ Len(claim_log[2]) = 1

\* Worker w executes a work call in this step: a result is appended to its
\* batch, or the call raises and ends the worker.
WorkStep(w) == /\ wpc[w] = "work"
               /\ \/ Len(rets'[w]) = Len(rets[w]) + 1
                  \/ wpc'[w] = "crashed"
\* Worker w pushes its batch onto the channel in this step.
PushStep(w) == /\ wpc[w] = "work" /\ wpc'[w] = "lock"
               /\ Len(queue') = Len(queue) + 1

\* C17: a worker holds the lock exactly while it is inside the claim section
\* (so at most one worker is inside it), and no work call and no push is
\* executed by a worker that holds the lock.
C17_LockOnlyAroundClaim ==
    /\ [](\A w \in Workers : lock = w <=> wpc[w] = "claim")
    /\ [][\A w \in Workers : WorkStep(w) \/ PushStep(w) => lock # w]_vars
\* Two workers are inside work for different batches at once: one half-way
\* through its batch, the other with its batch still ahead, nobody holding the lock.
C17_Witness ==
    /\ wpc[1] = "work" /\ wpc[2] = "work" /\ lock = 0
    /\ rets[1] # <<>> /\ genes[1] # <<>> /\ genes[2] # <<>>
    /\ Range(genes[1]) \cap Range(genes[2]) = {}

\* msg is the message a worker builds for the claimed index batch ix: one
\* (gene, model) pair per index, in the order of the indices.
IsMessageOf(msg, ix) ==
    /\ Len(msg) = Len(ix)
    /\ \A k \in DOMAIN ix :
          LET gene == var_names[ix[k] + 1]
          IN  /\ msg[k][1] = gene
              /\ msg[k] = work_recover_dynamics_fit_single(gene, fate[gene])
CeilDiv(a, b) == (a + b - 1) \div b
InFlight == {w \in Workers : wpc[w] \in {"work", "crashed"}}

\* C18: in the pooled engine (batch_size >= 1) the messages pushed are the
\* messages of distinct claims: one (gene, model) pair per claimed index, in
\* task-list order, between 1 and batch_size pairs each. A claim without a
\* message is still with its worker, and once every worker has exited there is
\* one message per claim, ceil(N / batch_size) messages in all.
C18_OneMessagePerClaim ==
    [](Pooled =>
         /\ Len(claim_log) - Len(put_log) = Cardinality(InFlight)
         /\ AllExited => /\ Len(put_log) = Len(claim_log)
                         /\ Len(put_log) = CeilDiv(N, batch_size)
         /\ Injective(put_log)
         /\ \A i \in DOMAIN put_log :
               /\ Len(put_log[i]) >= 1 /\ Len(put_log[i]) <= batch_size
               /\ \E j \in DOMAIN claim_log :
                     /\ IsMessageOf(put_log[i], claim_log[j])
                     /\ \A k \in 1..(Len(claim_log[j]) - 1) :
                           claim_log[j][k + 1] = claim_log[j][k] + 1)
\* A finished run of three tasks in batches of two: two messages, the short
\* one pushed first.
C18_Witness ==
    /\ Pooled /\ AllExited /\ N = 3 /\ batch_size = 2
    /\ Len(put_log) = 2 /\ Len(put_log[1]) = 1 /\ Len(put_log[2]) = 2

\* A started worker has stopped between its claim and its push.
Stopped(w) == wpc[w] = "crashed"
SomeStopped == \E w \in Workers : Stopped(w)
InCollectionLoop == dpc \in {"start", "loop", "collect"}

\* C19: a pooled worker that stopped after claiming and before pushing stays
\* stopped, and from then on the driver is never past its collection loop:
\* n_done stays below N and run does not return.
C19_DriverHangs ==
    /\ [](Pooled /\ SomeStopped => InCollectionLoop /\ n_done < N)
    /\ [][\A w \in Workers : Stopped(w) => Stopped(w)']_vars
\* The hang: one worker stopped, the other returned, every pushed message
\* collected, the driver waiting on the empty channel.
C19_Witness ==
    /\ Pooled /\ n_procs = 2 /\ Stopped(1) /\ wpc[2] = "exited"
    /\ dpc = "loop" /\ queue = <<>> /\ n_done >= 1 /\ n_done < N

\* A claim is made in this step.
ClaimStep == Len(claim_log') = Len(claim_log) + 1

\* C20 as stated: for every batch_size, each claim takes at least one task and
\* strictly increases the counter.
C20_EveryClaimAdvances ==
    [][ClaimStep => /\ Len(claim_log'[Len(claim_log')]) >= 1
                    /\ shared_task_counter' > shared_task_counter]_vars

\* ------------------------------------------------------------------ claims: engine choice
PoolUntouched == /\ n_started = 0 /\ \A w \in Workers : wpc[w] = "new"
                 /\ shared_task_counter = 0 /\ queue = <<>> /\ claim_log = <<>>
                 /\ put_log = <<>> /\ n_done = 0
LoopUntouched == seq_i = 1 /\ seq_ret = <<>>

\* C21: the engine is set once per call, on entry and before anything is
\* dispatched; it is the pooled engine iff n_procs > 1 and the sequential one
\* for n_procs = 1, 0 or negative. The engine that was not chosen never acts,
\* and what the sequential engine collects does not depend on batch_size.
C21_OneEngineChosenOnce ==
    /\ [](engine # "None" => (engine = "Multiprocessing" <=> n_procs > 1))
    /\ [](engine = "Sequential" => PoolUntouched)
    /\ [](engine = "Multiprocessing" => LoopUntouched)
    /\ [](engine = "Sequential" /\ dpc = "finished"
            => result = SequentialResult(var_names, fate, N))
    /\ [][engine' # engine => engine = "None" /\ dpc = "enter" /\ NothingDispatched]_vars
C21_Witness ==
    /\ engine = "Sequential" /\ n_procs = 0 /\ batch_size = 0 - 1
    /\ dpc = "finished" /\ N = 3

\* ------------------------------------------------------------------ claims: one call of update
\* The call of this step skips the t_-extension block of lines 270-298:
\* adjust_t_ is False or no observation is assigned o == 1 (line 269).
PlainCall == ~(last'.a.adjust_t_ /\ dm.ta.on)
\* The candidate of this step's call beats the last loss of the trace (line 267).
CandidateWins == last'.loss1 < LossPrev(dm)
ByEscape == last'.ret /\ last'.rule \in {"escape_loss", "escape_ut"}

\* C22: a call with adjust_t_ = False, or on a model without an observation
\* assigned o == 1, accepts iff the candidate's loss is strictly below the last
\* loss of the trace; a tie is rejected, and the loss it appends is the
\* candidate's, strictly below its predecessor.
C22_PlainAcceptIffLower ==
    [][PlainCall =>
         /\ last'.ret <=> CandidateWins
         /\ last'.ret => /\ dm'.loss = Append(dm.loss, last'.loss1)
                         /\ Last(dm'.loss) < Last(dm.loss)
                         /\ last'.rule = "loss"
         /\ ~last'.ret => dm' = dm]_vars
\* A tie was rejected by a call with adjust_t_ = False on a model that has
\* observations with o == 1.
C22_Witness ==
    /\ ~last.ret /\ ~last.a.adjust_t_ /\ dm.ta.on
    /\ last.loss1 = LossPrev(dm) /\ last.rule = "none"


\* The switching time of the state the escape rule of this step started from:
\* the candidate's when it won on loss, the current one otherwise (270-273).
DerivedFrom == IF CandidateWins THEN get_vars(dm, last'.a).t_ ELSE dm.t_

\* C23: whenever update accepts through the escape rule of line 288, the
\* switching time it installs is strictly larger than the switching time of
\* the state it was derived from.
C23_EscapeInstallsLargerT ==
    [][ByEscape => QLess(DerivedFrom, dm'.t_)]_vars

\* C24: when the candidate is rejected on loss and the escape rule accepts,
\* the new state keeps the current alpha, beta, gamma, scaling, u0_ and s0_:
\* no argument of the rejected candidate enters the state.
C24_EscapeDiscardsCandidate ==
    [][ByEscape /\ ~CandidateWins =>
         /\ dm'.alpha = dm.alpha /\ dm'.beta = dm.beta /\ dm'.gamma = dm.gamma
         /\ dm'.scaling = dm.scaling
         /\ dm'.u0_ = dm.u0_ /\ dm'.s0_ = dm.s0_]_vars


Current(m) == <<m.alpha, m.beta, m.gamma, m.t_, m.scaling>>

\* C26: after initialize and any calls of update and fit, the last column of
\* the parameter trace is the current (alpha, beta, gamma, t_, scaling) and
\* there is one loss per column; the parameters change only in a call of
\* update that is accepted, which appends the new column and its loss.
C26_TraceEndsAtCurrent ==
    /\ [](Initialized => /\ Len(dm.pars) = Len(dm.loss)
                         /\ Last(dm.pars) = Current(dm))
    /\ [][Initialized /\ Current(dm') # Current(dm) =>
            /\ InUpdate /\ last'.ret
            /\ dm'.pars = Append(dm.pars, Current(dm'))
            /\ Len(dm'.loss) = Len(dm.loss) + 1]_vars
\* fit() has returned after an accepted update that moved the parameters.
C26_Witness ==
    /\ mpc.at = "fitted" /\ last.ret
    /\ Len(dm.pars) = 2 /\ dm.pars[2] # dm.pars[1]
    /\ dm.pars[2] = Current(dm)


\* ------------------------------------------------------------------ claims: alignment
Rescaled == dpc = "aligned" /\ aligned # <<>> /\ aligned[1].recoverable

\* C27: after align_dynamics has rescaled the returned model, the last column
\* of its trace is still its current (alpha, beta, gamma, t_, scaling).
C27_AlignedTraceEndsAtCurrent ==
    Rescaled =>
        Last(aligned[1].pars) = <<aligned[1].alpha, aligned[1].beta, aligned[1].gamma,
                                  aligned[1].t_, aligned[1].scaling>>

\* C28: after a run with N >= 1 the remembered model is that of the last task
\* of the list, and the factor align_dynamics applies to it is the factor of
\* its own gene, whatever the engine and the arrival order.
C28_OwnFactorApplied ==
    /\ dpc \in {"finished", "returned", "aligned"} /\ N >= 1 =>
          /\ result.dm # <<>>
          /\ result.dm[1] = FittedModel(var_names[N], fate[var_names[N]])
    /\ Rescaled => Last(aligned[1].m) = TMaxFactor(get_loc(aligned[1].gene))


\* ------------------------------------------------------------------ claims: the stages of fit
\* The statements of fit() the log has entries of, in the order they were
\* entered (one name for each run of entries of the same statement).
RECURSIVE StagesOf(_, _)
StagesOf(log, k) ==
    IF k = 0 THEN <<>>
    ELSE LET before == StagesOf(log, k - 1)
         IN  IF k > 1 /\ log[k - 1][1] = log[k][1] /\ log[k - 1][2] # "result"
             THEN before ELSE Append(before, log[k][1])
StagesRun == StagesOf(fit_log, Len(fit_log))

\* C29: with max_iter > 0 the statements of fit() run in one order whatever
\* update accepts: the searches over t_ and alpha, over t_, beta and scaling,
\* over alpha and gamma, over t_, over t_ and all rates, the switch of the
\* assignment mode, the second search over t_ and all rates, and the final
\* update with the divergence, likelihood and variance after all of them.
C29_FixedStageOrder ==
    LET order == <<"fit_t_and_alpha", "fit_scaling_", "fit_rates", "fit_t_",
                   "fit_t_and_rates", "assignment_mode", "fit_t_and_rates", "update">>
    IN  /\ mpc.at \in {"fit", "fitted"}
        /\ IsPrefix(StagesRun, order)
        /\ mpc.at = "fitted" <=> (fit_log # <<>> /\ Last(fit_log) = <<"update", "finish">>)
        /\ mpc.at = "fitted" => StagesRun = order
        /\ \A i \in DOMAIN fit_log :
              fit_log[i][1] = "update" => mpc.at = "fitted" /\ i >= Len(fit_log) - 1
\* fit() has returned, with callbacks, after an update of one of its
\* statements was accepted and its last update was rejected.
C29_Witness ==
    /\ mpc.at = "fitted" /\ mpc.cb /\ ~last.ret
    /\ Len(dm.loss) = 2 /\ Len(fit_log) = 20

\* C30: every search of fit() calls update on a grid around the current value
\* before it calls the optimizer: each call of minimize directly follows a
\* seeding call of the same search.
C30_EverySearchSeeds ==
    \A i \in DOMAIN fit_log :
        fit_log[i][2] = "minimize" =>
            i > 1 /\ fit_log[i - 1] = <<fit_log[i][1], "seed">>


\* ------------------------------------------------------------------ claims: callbacks
\* C31: in every search of fit(), every iterate of the optimizer is passed to
\* update through the callback, whether the model was initialized or loaded
\* from stored parameters and whatever its high_pars_resolution.
C31_EveryIterateSeen ==
    mpc.at = "fit" => mpc.seen = mpc.it


\* ------------------------------------------------------------------ claims: initialize
\* C32: when the bimodality test raises, initialize goes on with the neutral
\* defaults: pval_steady is 1, steady_u and steady_s are 0, alpha and beta
\* keep their unblended values (alpha = u_inf * beta, beta = 1) in the first
\* column of pars, and the first loss is recorded before the scaling passes.
C32_NeutralDefaultsOnRaise ==
    (Initialized /\ dm.warned) =>
        /\ dm.pval_steady = Q(1)
        /\ dm.steady_u = Q(0) /\ dm.steady_s = Q(0)
        /\ dm.pars[1][1] = Q(2) /\ dm.pars[1][2] = Q(1)
        /\ Len(dm.loss) >= 1
        /\ mpc.at \in {"scaling", "ready", "fitted"}
\* initialize has returned, after both scaling passes, from a raising test.
C32_Witness ==
    /\ mpc.at = "ready" /\ dm.warned
    /\ dm.steady_state_ratio # None


\* ------------------------------------------------------------------ claims: the request
\* C33: a call that ends in a configuration error (the gene specification is
\* not resolved, or no requested gene is in the container) leaves the
\* container as it was handed in: uns, var, the layers and var_names.
C33_ConfigErrorLeavesContainer ==
    dpc = "config_error" => adata = NewAdata


\* The names a request asks for, before they are made unique and filtered.
Requested(req) ==
    IF req.kind \in {"list", "gene"} THEN Range(req.names)
    ELSE IF req.kind = "all" \/ req.use_raw THEN Genes
    ELSE req.sel
TestLists ==
    {l \in UNION {[1..n -> Genes] : n \in 0..MaxGenes} : Injective(l)}

\* line 1339: the default of return_model for n genes.
ReturnModelDefault(n) == n < 5

\* lines 1321-1340, with a list passed as var_names: the names made unique and
\* filtered, the error of line 1338 on an empty list, and return_model.
TestParse(req) ==
    LET known == SelectSeq(make_unique_list(req.names), LAMBDA name : name \in Genes)
    IN  [raised |-> Len(known) = 0,
         names  |-> known,
         return_model |-> IF req.return_model = "None" THEN ReturnModelDefault(Len(known))
                          ELSE req.return_model = "True"]

\* The state on entry of differential_kinetic_test on a container whose genes
\* were fitted before; fate tells which genes have too few samples.
TestInit ==
    /\ \E l \in TestLists, rm \in {"None", "True", "False"} :
         request = [kind |-> "list", names |-> l, return_model |-> rm]
    /\ var_names = <<>>
    /\ fate \in [Genes -> {"fit", "unrecoverable"}]
    /\ \A g \in Genes \ Range(request.names) : fate[g] = "fit"
    /\ engine = "None" /\ n_procs = 0 /\ batch_size = 0
    /\ shared_task_counter = 0 /\ lock = 0 /\ queue = <<>>
    /\ wpc = [w \in Workers |-> "new"]
    /\ genes = [w \in Workers |-> <<>>]
    /\ rets = [w \in Workers |-> <<>>]
    /\ dpc = "test_enter"
    /\ n_started = 0 /\ n_joined = 0 /\ n_done = 0 /\ drets = <<>>
    /\ seq_i = 1 /\ seq_ret = <<>>
    /\ result = [idx |-> <<>>, warned |-> <<>>]
    /\ adata = Entered(NewAdata, FALSE)
    /\ claim_log = <<>> /\ put_log = <<>> /\ collect_log = <<>>
    /\ aligned = <<>>
    /\ dm = None /\ mpc = "idle" /\ last = <<>> /\ fit_log = <<>>

\* lines 1316-1375: the gene list is parsed, the genes without stored
\* parameters are handed to recover_dynamics, which returns, and the result
\* arrays are set up.
TestEnter ==
    /\ dpc = "test_enter"
    /\ LET p == TestParse(request)
       IN  IF p.raised
           THEN /\ dpc' = "config_error"
                /\ UNCHANGED <<var_names, request>>
           ELSE /\ var_names' = p.names
                /\ request' = [kind |-> "parsed", return_model |-> p.return_model]
                /\ dpc' = "test_loop"
    /\ UNCHANGED <<fate, engine, n_procs, batch_size, shared_task_counter, lock, queue,
                   wpc, genes, rets, n_started, n_joined, n_done, drets, seq_i, seq_ret,
                   result, adata, aligned, claim_log, put_log, collect_log, model_vars>>

\* lines 1378-1389: one pass of the loop over a recoverable gene; dm is bound
\* to its model and its index is appended to idx.
TestGene ==
    /\ dpc = "test_loop" /\ seq_i <= Len(var_names)
    /\ LET gene == var_names[seq_i]
       IN  /\ fate[gene] = "fit"
           /\ dm' = <<[gene |-> gene, recoverable |-> TRUE]>>
           /\ result' = [result EXCEPT !.idx = Append(@, get_loc(gene))]
    /\ seq_i' = seq_i + 1
    /\ UNCHANGED <<request, var_names, fate, engine, n_procs, batch_size,
                   shared_task_counter, lock, queue, wpc, genes, rets, dpc, n_started,
                   n_joined, n_done, drets, seq_ret, adata, aligned, claim_log, put_log,
                   collect_log, mpc, last, fit_log>>

\* lines 1378-1379, 1390-1392: one pass over a gene that is not recoverable;
\* the warning is logged and dm is rebound to None.
TestSkip ==
    /\ dpc = "test_loop" /\ seq_i <= Len(var_names)
    /\ LET gene == var_names[seq_i]
       IN  /\ fate[gene] = "unrecoverable"
           /\ dm' = None
           /\ result' = [result EXCEPT !.warned = Append(@, gene)]
    /\ seq_i' = seq_i + 1
    /\ UNCHANGED <<request, var_names, fate, engine, n_procs, batch_size,
                   shared_task_counter, lock, queue, wpc, genes, rets, dpc, n_started,
                   n_joined, n_done, drets, seq_ret, adata, aligned, claim_log, put_log,
                   collect_log, mpc, last, fit_log>>

\* lines 1393-1400: after the loop the columns, the p-value table and the uns
\* entry are written.
TestWrite ==
    /\ dpc = "test_loop" /\ seq_i > Len(var_names)
    /\ adata' = [adata EXCEPT !.keys = @ \cup {"fit_diff_kinetics", "fit_pval_kinetics",
                                               "varm_fit_pvals_kinetics",
                                               "uns_fit_diff_kinetics"}]
    /\ dpc' = "test_written"
    /\ UNCHANGED <<request, var_names, fate, engine, n_procs, batch_size,
                   shared_task_counter, lock, queue, wpc, genes, rets, n_started,
                   n_joined, n_done, drets, seq_i, seq_ret, result, aligned, claim_log,
                   put_log, collect_log, model_vars>>

\* lines 1411-1414: `if return_model: logg.info(..., dm.gene)` reads an
\* attribute of dm, which raises AttributeError when dm is None; otherwise
\* the function returns.
TestReturn ==
    /\ dpc = "test_written"
    /\ dpc' = IF request.return_model /\ dm = None THEN "test_raised" ELSE "test_returned"
    /\ UNCHANGED <<request, var_names, fate, engine, n_procs, batch_size,
                   shared_task_counter, lock, queue, wpc, genes, rets, n_started,
                   n_joined, n_done, drets, seq_i, seq_ret, result, adata, aligned,
                   claim_log, put_log, collect_log, model_vars>>

TestNext == TestEnter \/ TestGene \/ TestSkip \/ TestWrite \/ TestReturn
TestSpec == TestInit /\ [][TestNext]_vars

\* ------------------------------------------------------------------ claims: differential_kinetic_test
\* C35: a gene that is not recoverable is skipped with a warning and does not
\* abort differential_kinetic_test, wherever it stands in the gene list and
\* whatever return_model is: every other gene is processed and the function
\* returns.
C35_UnrecoverableNeverAborts ==
    /\ dpc # "test_raised"
    /\ dpc = "test_returned" =>
         /\ Range(result.warned) = {g \in Range(var_names) : fate[g] = "unrecoverable"}
         /\ Range(result.idx) = {get_loc(g) : g \in {h \in Range(var_names) : fate[h] = "fit"}}

====
